---- MODULE Spec2Model ----
(***************************************************************************)
(* Rollia: the combat engine (backend/src/services/combatService.ts) and   *)
(* the pending-check / roll state machine of the /dm-response handler      *)
(* (backend/src/routes/diceRoutes.ts).                                     *)
(*                                                                         *)
(* JavaScript values are modelled as follows.                              *)
(*   - an optional number (a field that may be undefined or not a number)  *)
(*     is a sequence: <<>> when absent, <<n>> when it is the number n;     *)
(*   - a string that may be null is a string, "" standing for null (both   *)
(*     are falsy in the code's tests);                                     *)
(*   - a Map is a set of entries [key, val], see MapSet/MapGet/MapDelete;  *)
(*   - an array is a sequence.                                             *)
(***************************************************************************)
EXTENDS Integers, Sequences, FiniteSets, TLC

VARIABLES
    battles,        \* combatService.ts: const battles = new Map<string, CombatState>()
    lastCall,       \* what the last step of a request was given and what it did
    callsLeft,      \* remaining requests of the explored run
    pendingChecks,  \* diceRoutes.ts: const pendingChecks = new Map<string, PendingCheck>()
    gameStateByCampaign,    \* diceRoutes.ts: the Map of {lastResolvedAction, turnIndex}
    inflight,       \* the /dm-response requests waiting at an await, by slot
    now,            \* Date.now()
    history         \* the ids of the checks stored and of the checks rolled, in order

dmVars == <<pendingChecks, gameStateByCampaign, inflight, now, history>>
vars ==
    <<battles, lastCall, callsLeft, pendingChecks, gameStateByCampaign, inflight, now,
      history>>

----------------------------------------------------------------------------
(* Bounds of the exploration *)

\* how many /start and /action requests one explored run makes
MaxCalls == 2

\* how many /start and /action requests one explored long run makes
MaxLongCalls == 5

----------------------------------------------------------------------------
(* JavaScript helpers *)

None == <<>>
Some(n) == <<n>>
IsNumber(x) == x # None
Num(x) == x[1]

Min2(a, b) == IF a < b THEN a ELSE b
Max2(a, b) == IF a > b THEN a ELSE b

\* Math.floor(n / 2) for the non-negative n the code passes
FloorHalf(n) == n \div 2

\* Map.prototype.has / get / set / delete over a set of [key, val] entries
MapHas(m, k) == \E e \in m : e.key = k
MapGet(m, k) == (CHOOSE e \in m : e.key = k).val
\* a store that keeps the earlier entry of a key next to the new one
MapSet_append(m, k, v) == m \cup {[key |-> k, val |-> v]}
MapSet(m, k, v) == {e \in m : e.key # k} \cup {[key |-> k, val |-> v]}
\* a delete that leaves the entry in the store
MapDelete_keep(m, k) == m
MapDelete(m, k) == {e \in m : e.key # k}

\* Array.prototype.find as an index: the first position of the set of
\* positions passing the test, 0 if none
FirstOf(positions) ==
    IF positions = {} THEN 0 ELSE CHOOSE i \in positions : \A j \in positions : i <= j

\* Array.prototype.filter is SelectSeq of module Sequences

\* the value of a const binding: Only({ body : x \in {e} }) is body with x
\* naming the value of e
Only(S) == CHOOSE x \in S : TRUE

\* Array.prototype.slice(-n)
SliceLast(seq, n) ==
    IF Len(seq) <= n THEN seq ELSE SubSeq(seq, Len(seq) - n + 1, Len(seq))

----------------------------------------------------------------------------
(* combatService.ts *)

\* const ac = 10 in resolveAttack
ArmorClass == 10

\* appendLog keeps the last 20 events
LogCap == 20

\* rollDie(faces): Math.floor(Math.random() * faces) + 1
rollDie(faces) == 1..faces

clamp(value, min, max) == Max2(min, Min2(max, value))

\* appendLog keeping the oldest events of a full log
appendLog_keepOldest(state, events) ==
    [state EXCEPT !.log = SubSeq(state.log \o events, 1,
                                 Min2(Len(state.log \o events), LogCap))]

appendLog(state, events) ==
    [state EXCEPT !.log = SliceLast(state.log \o events, LogCap)]

\* startBattle putting the enemies ahead of the player in the initiative order
startBattle_enemiesFirst(campaignId, player, enemies) ==
    appendLog(
        [id |-> campaignId \o "-battle",
         phase |-> "player_turn",
         round |-> 1,
         turn_index |-> 0,
         initiative_order |-> [i \in 1..Len(enemies) |-> enemies[i].id] \o <<player.id>>,
         entities |-> <<player>> \o enemies,
         log |-> <<>>],
        << [type |-> "TURN_START", actor |-> player.id] >>)

\* the CombatState startBattle builds (it is stored by the caller's MapSet)
startBattle(campaignId, player, enemies) ==
    appendLog(
        [id |-> campaignId \o "-battle",
         phase |-> "player_turn",
         round |-> 1,
         turn_index |-> 0,
         initiative_order |-> <<player.id>> \o [i \in 1..Len(enemies) |-> enemies[i].id],
         entities |-> <<player>> \o enemies,
         log |-> <<>>],
        << [type |-> "TURN_START", actor |-> player.id] >>)

FindById(entities, id) == FirstOf({i \in 1..Len(entities) : entities[i].id = id})
FindPlayer(entities) == FirstOf({i \in 1..Len(entities) : entities[i].type = "player"})
HasStatus(entity, key) == \E i \in 1..Len(entity.statuses) : entity.statuses[i].key = key

\* an absent attackRoll (rollOverrides?.attackRoll undefined)
NoAttackRoll == [d20 |-> None, bonus |-> None, total |-> None]

\* the damage of a critical hit left undoubled
attackDamage_noDouble(attacker, target, critical, dmgDie) ==
    LET baseDamage == IF attacker.type = "player" THEN dmgDie + 2 ELSE dmgDie + 1
    IN  IF target.type = "player" /\ HasStatus(target, "defending")
        THEN Max2(1, FloorHalf(baseDamage))
        ELSE baseDamage

\* the damage of a hit on a defending player left whole
attackDamage_noHalving(attacker, target, critical, dmgDie) ==
    LET baseDamage == IF attacker.type = "player" THEN dmgDie + 2 ELSE dmgDie + 1
    IN  IF critical THEN baseDamage * 2 ELSE baseDamage

\* resolveAttack lines 103-110: the damage of a hit; dmgDie is the value of
\* rollDie(8) for a player attacker and of rollDie(6) for any other
attackDamage(attacker, target, critical, dmgDie) ==
    LET baseDamage == IF attacker.type = "player" THEN dmgDie + 2 ELSE dmgDie + 1
        damage == IF critical THEN baseDamage * 2 ELSE baseDamage
    IN  IF target.type = "player" /\ HasStatus(target, "defending")
        THEN Max2(1, FloorHalf(damage))
        ELSE damage

\* resolveAttack with the hit decided by the total alone
resolveAttack_totalOnly(state, intent, events, attackRoll, d20Gen, dmgDie) ==
    LET same == [state |-> state, events |-> events]
        ai == FindById(state.entities, intent.actor)
        ti == FindById(state.entities, intent.target)
    IN  IF intent.target = "" THEN same
        ELSE IF ai = 0 \/ ti = 0 THEN same
        ELSE
        LET attacker == state.entities[ai]
            target == state.entities[ti]
            d20 == IF IsNumber(attackRoll.d20) THEN Num(attackRoll.d20) ELSE d20Gen
            bonus == IF IsNumber(attackRoll.bonus) THEN Num(attackRoll.bonus)
                     ELSE IF IsNumber(attackRoll.total) THEN Num(attackRoll.total) - d20
                     ELSE 0
            total == IF IsNumber(attackRoll.total) THEN Num(attackRoll.total) ELSE d20 + bonus
            critical == (d20 = 20)
            fumble == (d20 = 1)
            hit == total >= ArmorClass
            attackEvent == [type |-> "ATTACK_RESOLVED", actor |-> attacker.id,
                            target |-> target.id, hit |-> hit, roll |-> d20,
                            bonus |-> bonus, total |-> total, critical |-> critical,
                            fumble |-> fumble, ac |-> ArmorClass]
            baseDamage == IF attacker.type = "player" THEN dmgDie + 2 ELSE dmgDie + 1
            rawDamage == IF critical THEN baseDamage * 2 ELSE baseDamage
            damage == IF target.type = "player" /\ HasStatus(target, "defending")
                      THEN Max2(1, FloorHalf(rawDamage))
                      ELSE rawDamage
            newHp == clamp(target.hp - damage, 0, target.hp_max)
            damageEvent == [type |-> "DAMAGE_APPLIED", target |-> target.id,
                            amount |-> damage, source |-> attacker.id,
                            remaining_hp |-> newHp]
            defeated == IF newHp = 0
                        THEN << [type |-> "ENEMY_DEFEATED", target |-> target.id] >>
                        ELSE <<>>
        IN  IF hit
            THEN [state |-> [state EXCEPT !.entities[ti].hp = newHp],
                  events |-> events \o <<attackEvent, damageEvent>> \o defeated]
            ELSE [state |-> state, events |-> events \o <<attackEvent>>]

\* resolveAttack mutates state and pushes to events; here it returns both.
\* d20Gen is the value rollDie(20) would give, dmgDie the value of the damage
\* die (d8 for a player attacker, d6 for an enemy attacker).
resolveAttack(state, intent, events, attackRoll, d20Gen, dmgDie) ==
    LET same == [state |-> state, events |-> events]
        ai == FindById(state.entities, intent.actor)
        ti == FindById(state.entities, intent.target)
    IN  IF intent.target = "" THEN same
        ELSE IF ai = 0 \/ ti = 0 THEN same
        ELSE
        LET attacker == state.entities[ai]
            target == state.entities[ti]
            d20 == IF IsNumber(attackRoll.d20) THEN Num(attackRoll.d20) ELSE d20Gen
            bonus == IF IsNumber(attackRoll.bonus) THEN Num(attackRoll.bonus)
                     ELSE IF IsNumber(attackRoll.total) THEN Num(attackRoll.total) - d20
                     ELSE 0
            total == IF IsNumber(attackRoll.total) THEN Num(attackRoll.total) ELSE d20 + bonus
            critical == (d20 = 20)
            fumble == (d20 = 1)
            hit == IF critical THEN TRUE ELSE IF fumble THEN FALSE ELSE total >= ArmorClass
            attackEvent == [type |-> "ATTACK_RESOLVED", actor |-> attacker.id,
                            target |-> target.id, hit |-> hit, roll |-> d20,
                            bonus |-> bonus, total |-> total, critical |-> critical,
                            fumble |-> fumble, ac |-> ArmorClass]
            damage == attackDamage(attacker, target, critical, dmgDie)
            newHp == clamp(target.hp - damage, 0, target.hp_max)
            damageEvent == [type |-> "DAMAGE_APPLIED", target |-> target.id,
                            amount |-> damage, source |-> attacker.id,
                            remaining_hp |-> newHp]
            defeated == IF newHp = 0
                        THEN << [type |-> "ENEMY_DEFEATED", target |-> target.id] >>
                        ELSE <<>>
        IN  IF hit
            THEN [state |-> [state EXCEPT !.entities[ti].hp = newHp],
                  events |-> events \o <<attackEvent, damageEvent>> \o defeated]
            ELSE [state |-> state, events |-> events \o <<attackEvent>>]

\* resolveDefend adding the status whether or not the actor holds it
resolveDefend_always(state, intent, events) ==
    LET ai == FindById(state.entities, intent.actor)
    IN  IF ai = 0 THEN [state |-> state, events |-> events]
        ELSE [state |-> [state EXCEPT !.entities[ai].statuses =
                            Append(@, [key |-> "defending", duration |-> 1])],
              events |-> Append(events, [type |-> "STATUS_APPLIED", target |-> intent.actor,
                                         status_key |-> "defending", duration |-> "turn"])]

resolveDefend(state, intent, events) ==
    LET ai == FindById(state.entities, intent.actor)
    IN  IF ai = 0 THEN [state |-> state, events |-> events]
        ELSE
        LET actor == state.entities[ai]
            statuses == IF HasStatus(actor, "defending") THEN actor.statuses
                        ELSE Append(actor.statuses, [key |-> "defending", duration |-> 1])
        IN  [state |-> [state EXCEPT !.entities[ai].statuses = statuses],
             events |-> Append(events, [type |-> "STATUS_APPLIED", target |-> actor.id,
                                        status_key |-> "defending", duration |-> "turn"])]

resolveAttempt(state, intent, events) ==
    [state |-> state,
     events |-> Append(events, [type |-> "ATTEMPT_ACTION", actor |-> intent.actor,
                                target |-> intent.target])]

\* clearExpiredStatuses keeping a status whose duration reached 0
clearExpiredStatuses_keepZero(entity, events) ==
    LET decremented == [i \in 1..Len(entity.statuses) |->
                           [entity.statuses[i] EXCEPT !.duration = @ - 1]]
        remaining == SelectSeq(decremented, LAMBDA s : s.duration >= 0)
        gone == SelectSeq(entity.statuses,
                          LAMBDA s : ~\E i \in 1..Len(remaining) : remaining[i].key = s.key)
        removedEvents == [i \in 1..Len(gone) |->
                             [type |-> "STATUS_REMOVED", target |-> entity.id,
                              status_key |-> gone[i].key]]
    IN  [entity |-> [entity EXCEPT !.statuses = remaining],
         events |-> events \o removedEvents]

\* clearExpiredStatuses: decrement every duration, keep those still > 0, push
\* STATUS_REMOVED for every old status whose key is not among the kept ones
clearExpiredStatuses(entity, events) ==
    LET decremented == [i \in 1..Len(entity.statuses) |->
                           [entity.statuses[i] EXCEPT !.duration = @ - 1]]
        remaining == SelectSeq(decremented, LAMBDA s : s.duration > 0)
        gone == SelectSeq(entity.statuses,
                          LAMBDA s : ~\E i \in 1..Len(remaining) : remaining[i].key = s.key)
        removedEvents == [i \in 1..Len(gone) |->
                             [type |-> "STATUS_REMOVED", target |-> entity.id,
                              status_key |-> gone[i].key]]
    IN  [entity |-> [entity EXCEPT !.statuses = remaining],
         events |-> events \o removedEvents]

\* state.entities.forEach(entity => clearExpiredStatuses(entity, events))
RECURSIVE clearAllStatuses(_, _, _)
clearAllStatuses(state, events, i) ==
    IF i > Len(state.entities) THEN [state |-> state, events |-> events]
    ELSE Only({ clearAllStatuses([state EXCEPT !.entities[i] = r.entity], r.events, i + 1) :
                r \in {clearExpiredStatuses(state.entities[i], events)} })

\* enemies.forEach(...) of resolveEnemyTurn; ed20, edmg are the dice of the
\* k-th living enemy
RECURSIVE enemyAttacks(_, _, _, _, _, _, _)
enemyAttacks(state, events, enemies, k, playerId, ed20, edmg) ==
    IF k > Len(enemies) THEN [state |-> state, events |-> events]
    ELSE Only({ enemyAttacks(r.state, r.events, enemies, k + 1, playerId, ed20, edmg) :
                r \in {resolveAttack(state,
                                     [action |-> "attack", actor |-> enemies[k].id,
                                      target |-> playerId],
                                     Append(events, [type |-> "TURN_START",
                                                     actor |-> enemies[k].id]),
                                     NoAttackRoll, ed20[k], edmg[k])} })

resolveEnemyTurn(state, events, ed20, edmg) ==
    LET pi == FindPlayer(state.entities)
    IN  IF pi = 0 THEN [state |-> state, events |-> events]
        ELSE
        LET player == state.entities[pi]
            enemies == SelectSeq(state.entities, LAMBDA e : e.type = "enemy" /\ e.hp > 0)
        IN  Only({ [state |-> r.state,
                    events |-> Append(r.events, [type |-> "TURN_START", actor |-> player.id])] :
                   r \in {enemyAttacks(state, events, enemies, 1, player.id, ed20, edmg)} })

\* checkCombatEnd testing the enemies before the player
checkCombatEnd_victoryFirst(state, events) ==
    LET pi == FindPlayer(state.entities)
        enemiesAlive == \E i \in 1..Len(state.entities) :
                            state.entities[i].type = "enemy" /\ state.entities[i].hp > 0
    IN  IF ~enemiesAlive
        THEN [state |-> [state EXCEPT !.phase = "ended"],
              events |-> Append(events, [type |-> "COMBAT_ENDED", result |-> "victory"]),
              ended |-> TRUE]
        ELSE IF pi = 0 \/ state.entities[pi].hp <= 0
        THEN [state |-> [state EXCEPT !.phase = "ended"],
              events |-> Append(events, [type |-> "COMBAT_ENDED", result |-> "defeat"]),
              ended |-> TRUE]
        ELSE [state |-> state, events |-> events, ended |-> FALSE]

checkCombatEnd(state, events) ==
    LET pi == FindPlayer(state.entities)
        enemiesAlive == \E i \in 1..Len(state.entities) :
                            state.entities[i].type = "enemy" /\ state.entities[i].hp > 0
    IN  IF pi = 0 \/ state.entities[pi].hp <= 0
        THEN [state |-> [state EXCEPT !.phase = "ended"],
              events |-> Append(events, [type |-> "COMBAT_ENDED", result |-> "defeat"]),
              ended |-> TRUE]
        ELSE IF ~enemiesAlive
        THEN [state |-> [state EXCEPT !.phase = "ended"],
              events |-> Append(events, [type |-> "COMBAT_ENDED", result |-> "victory"]),
              ended |-> TRUE]
        ELSE [state |-> state, events |-> events, ended |-> FALSE]

\* resolveAction lines 201-209: the optional player snapshot (hp only; mp is
\* carried by no event and read by no rule of the engine)
applySnapshot(state, snapshotHp) ==
    LET pi == FindPlayer(state.entities)
    IN  IF pi # 0 /\ IsNumber(snapshotHp)
        THEN [state EXCEPT !.entities[pi].hp =
                               clamp(Num(snapshotHp), 0, state.entities[pi].hp_max)]
        ELSE state

\* resolveAction lines 214-234: switch (intent.action)
dispatchAction(state, intent, events, attackRoll, rolls) ==
    CASE intent.action = "attack" ->
            resolveAttack(state, intent, events, attackRoll, rolls.pd20,
                          IF \E ai \in {FindById(state.entities, intent.actor)} :
                                 ai # 0 /\ state.entities[ai].type = "player"
                          THEN rolls.pdmg ELSE rolls.pdmg6)
      [] intent.action = "defend" -> resolveDefend(state, intent, events)
      [] intent.action = "move" ->
            [state |-> state,
             events |-> Append(events, [type |-> "MOVE_RESOLVED", actor |-> intent.actor,
                                        target |-> intent.target])]
      [] intent.action = "item" ->
            [state |-> state,
             events |-> Append(events, [type |-> "ITEM_USED", actor |-> intent.actor])]
      [] intent.action = "spell" ->
            [state |-> state,
             events |-> Append(events, [type |-> "SPELL_CAST", actor |-> intent.actor])]
      [] OTHER -> resolveAttempt(state, intent, events)

\* continueRound with the statuses expiring before the enemies act
continueRound_statusFirst(state, events, rolls) ==
    Only({ IF end1.ended THEN [state |-> end1.state, events |-> end1.events]
           ELSE Only({ [state |-> end2.state, events |-> end2.events] :
                  end2 \in { checkCombatEnd([e.state EXCEPT !.round = @ + 1,
                                                            !.phase = "player_turn"],
                                            e.events) :
                    e \in { resolveEnemyTurn(c.state, c.events, rolls.ed20, rolls.edmg) :
                      c \in { clearAllStatuses([state EXCEPT !.phase = "enemy_turn"],
                                               events, 1) } } } }) :
           end1 \in {checkCombatEnd(state, events)} })

\* resolveAction lines 236-243: what follows the player's action
continueRound(state, events, rolls) ==
    Only({ IF end1.ended THEN [state |-> end1.state, events |-> end1.events]
           ELSE Only({ [state |-> end2.state, events |-> end2.events] :
                  end2 \in { checkCombatEnd(c.state, c.events) :
                    c \in { clearAllStatuses([e.state EXCEPT !.round = @ + 1,
                                                             !.phase = "player_turn"],
                                             e.events, 1) :
                      e \in { resolveEnemyTurn([state EXCEPT !.phase = "enemy_turn"],
                                               events, rolls.ed20, rolls.edmg) } } } }) :
           end1 \in {checkCombatEnd(state, events)} })

\* resolveAction on the stored state of the campaign (the caller checks that a
\* battle is stored and stores the returned state)
resolveAction(state, intent, snapshotHp, attackRoll, rolls) ==
    Only({ [state |-> appendLog(r.state, r.events), events |-> r.events] :
           r \in { continueRound(acted.state, acted.events, rolls) :
             acted \in { dispatchAction(applySnapshot(state, snapshotHp), intent,
                                        << [type |-> "TURN_START", actor |-> intent.actor] >>,
                                        attackRoll, rolls) } } })

----------------------------------------------------------------------------
(* The explored inputs *)

Campaigns == {"c1", "c2"}

\* the dice values explored: both ends of every die and the two d20 values
\* around the armor class
DiceSample(faces) == {f \in rollDie(faces) : f \in {1, ArmorClass - 1, ArmorClass, faces}}

\* the explored values of the d20, the d8 and the d6
WideDice == [d20 |-> DiceSample(20), d8 |-> DiceSample(8), d6 |-> DiceSample(6)]

\* the dice values explored in long runs: a d20 that just misses or just
\* hits, the lowest damage
NarrowDice ==
    [d20 |-> {f \in rollDie(20) : f \in {ArmorClass - 1, ArmorClass}},
     d8 |-> {f \in rollDie(8) : f = 1},
     d6 |-> {f \in rollDie(6) : f = 1}]

\* the dice one resolveAction call may throw: the d20 and the damage die of
\* the intent's attack (the d8 of a player attacker, pdmg, or the d6 of an
\* enemy attacker, pdmg6) when the action is an attack and, for the k-th
\* living enemy, its d20 and damage die
RollChoices(dice, playerRolls, nEnemies) ==
    [pd20 : IF playerRolls THEN dice.d20 ELSE {1},
     pdmg : IF playerRolls THEN dice.d8 ELSE {1},
     pdmg6 : IF playerRolls THEN dice.d6 ELSE {1},
     ed20 : [1..nEnemies -> dice.d20], edmg : [1..nEnemies -> dice.d6]]

LivingEnemies(state) ==
    Len(SelectSeq(state.entities, LAMBDA e : e.type = "enemy" /\ e.hp > 0))

\* request bodies of POST /start: player {hp, hp_max} and the enemies
\* {id, hp, hp_max}; an absent field takes the route's default
WeakEnemy == [id |-> "", hp |-> Some(3), hp_max |-> None]
BossEnemy == [id |-> "boss", hp |-> None, hp_max |-> Some(12)]
StartBodies ==
    { [player |-> p, enemies |-> e] :
        p \in { [hp |-> None, hp_max |-> None],
                [hp |-> Some(8), hp_max |-> None],
                [hp |-> Some(8), hp_max |-> Some(5)] },
        e \in { <<>>, <<WeakEnemy>> } }
    \cup { [player |-> [hp |-> Some(8), hp_max |-> None],
            enemies |-> <<WeakEnemy, BossEnemy>>] }

\* request bodies of POST /action: the intent and the optional player snapshot
ActionRequests ==
    { [intent |-> [action |-> "attack", actor |-> "player", target |-> "enemy-0"],
       snapshotHp |-> None],
      [intent |-> [action |-> "attack", actor |-> "player", target |-> "enemy-0"],
       snapshotHp |-> Some(0)],
      [intent |-> [action |-> "attack", actor |-> "player", target |-> ""],
       snapshotHp |-> None],
      [intent |-> [action |-> "attack", actor |-> "enemy-0", target |-> "player"],
       snapshotHp |-> None],
      [intent |-> [action |-> "attack", actor |-> "nobody", target |-> "player"],
       snapshotHp |-> None],
      [intent |-> [action |-> "defend", actor |-> "player", target |-> ""],
       snapshotHp |-> None],
      [intent |-> [action |-> "defend", actor |-> "enemy-0", target |-> ""],
       snapshotHp |-> Some(99)],
      [intent |-> [action |-> "move", actor |-> "player", target |-> "enemy-0"],
       snapshotHp |-> Some(99)],
      [intent |-> [action |-> "item", actor |-> "player", target |-> ""],
       snapshotHp |-> Some(0)],
      [intent |-> [action |-> "spell", actor |-> "player", target |-> "enemy-0"],
       snapshotHp |-> None],
      [intent |-> [action |-> "attempt", actor |-> "player", target |-> ""],
       snapshotHp |-> None] }

----------------------------------------------------------------------------
(* diceRoutes.ts, the combat router: POST /start and POST /action *)

\* lines 411-420
playerEntityOf(player) ==
    [id |-> "player", type |-> "player",
     hp |-> IF IsNumber(player.hp) THEN Num(player.hp) ELSE 1,
     hp_max |-> IF IsNumber(player.hp_max) THEN Num(player.hp_max)
                ELSE IF IsNumber(player.hp) THEN Num(player.hp) ELSE 1,
     statuses |-> <<>>]

\* lines 422-429; index is the 0-based array index
enemyEntityOf(enemy, index) ==
    [id |-> IF enemy.id # "" THEN enemy.id ELSE "enemy-" \o ToString(index),
     type |-> "enemy",
     hp |-> IF IsNumber(enemy.hp) THEN Num(enemy.hp) ELSE 10,
     hp_max |-> IF IsNumber(enemy.hp_max) THEN Num(enemy.hp_max)
                ELSE IF IsNumber(enemy.hp) THEN Num(enemy.hp) ELSE 10,
     statuses |-> <<>>]

NoCall == [op |-> "none"]

\* POST /start
StartRoute(c, player, enemies) ==
    /\ callsLeft > 0
    /\ \E playerEntity \in {playerEntityOf(player)} :
       \E enemyEntities \in {[i \in 1..Len(enemies) |-> enemyEntityOf(enemies[i], i - 1)]} :
       \E state \in {startBattle(c, playerEntity, enemyEntities)} :
           /\ battles' = MapSet(battles, c, state)
           /\ lastCall' = [op |-> "start", campaign |-> c, events |-> state.log,
                           player |-> playerEntity, enemies |-> enemyEntities,
                           replaced |-> MapHas(battles, c)]
    /\ callsLeft' = callsLeft - 1
    /\ UNCHANGED dmVars

\* POST /action answering without an error when no battle is stored
ActionRoute_silent(c, intent, snapshotHp, dice) ==
    /\ callsLeft > 0
    /\ IF ~MapHas(battles, c)
       THEN /\ battles' = battles
            /\ lastCall' = [op |-> "action", campaign |-> c, error |-> ""]
       ELSE \E pre \in {MapGet(battles, c)} :
                \E rolls \in RollChoices(dice, intent.action = "attack", LivingEnemies(pre)) :
                \E r \in {resolveAction(pre, intent, snapshotHp, NoAttackRoll, rolls)} :
                    /\ battles' = MapSet(battles, c, r.state)
                    /\ lastCall' = [op |-> "action", campaign |-> c, error |-> "",
                                    intent |-> intent, snapshotHp |-> snapshotHp,
                                    attackRoll |-> NoAttackRoll, rolls |-> rolls,
                                    pre |-> pre, events |-> r.events]
    /\ callsLeft' = callsLeft - 1
    /\ UNCHANGED dmVars

\* POST /action: resolveAction throws and the route answers 500 when no battle
\* is stored; otherwise the battle is resolved and stored back
ActionRoute(c, intent, snapshotHp, dice) ==
    /\ callsLeft > 0
    /\ IF ~MapHas(battles, c)
       THEN /\ battles' = battles
            /\ lastCall' = [op |-> "action", campaign |-> c, error |-> "Battle not found"]
       ELSE \E pre \in {MapGet(battles, c)} :
                \E rolls \in RollChoices(dice, intent.action = "attack", LivingEnemies(pre)) :
                \E r \in {resolveAction(pre, intent, snapshotHp, NoAttackRoll, rolls)} :
                    /\ battles' = MapSet(battles, c, r.state)
                    /\ lastCall' = [op |-> "action", campaign |-> c, error |-> "",
                                    intent |-> intent, snapshotHp |-> snapshotHp,
                                    attackRoll |-> NoAttackRoll, rolls |-> rolls,
                                    pre |-> pre, events |-> r.events]
    /\ callsLeft' = callsLeft - 1
    /\ UNCHANGED dmVars

\* no check has been stored or rolled
NoHistory == [issued |-> <<>>, resolved |-> <<>>]

\* no /dm-response request is made in the runs of the combat routes
DmQuiet ==
    /\ pendingChecks = {}
    /\ gameStateByCampaign = {}
    /\ inflight = <<>>
    /\ now = 1
    /\ history = NoHistory

CombatInit ==
    /\ battles = {}
    /\ lastCall = NoCall
    /\ callsLeft = MaxCalls
    /\ DmQuiet

CombatNext ==
    \/ \E c \in Campaigns, body \in StartBodies :
          StartRoute(c, body.player, body.enemies)
    \/ \E c \in Campaigns, req \in ActionRequests :
          ActionRoute(c, req.intent, req.snapshotHp, WideDice)

SpecCombat == CombatInit /\ [][CombatNext]_vars

\* Long runs of the same two routes over fewer request bodies and dice
LongStartBody ==
    [player |-> [hp |-> Some(8), hp_max |-> None],
     enemies |-> << [id |-> "", hp |-> None, hp_max |-> None] >>]
LongRequests ==
    { [intent |-> [action |-> "attack", actor |-> "player", target |-> "enemy-0"],
       snapshotHp |-> None],
      [intent |-> [action |-> "defend", actor |-> "player", target |-> ""],
       snapshotHp |-> None],
      [intent |-> [action |-> "attempt", actor |-> "player", target |-> ""],
       snapshotHp |-> Some(0)],
      [intent |-> [action |-> "move", actor |-> "player", target |-> "enemy-0"],
       snapshotHp |-> Some(99)] }

CombatLongInit ==
    /\ battles = {}
    /\ lastCall = NoCall
    /\ callsLeft = MaxLongCalls
    /\ DmQuiet

CombatLongNext ==
    \/ \E c \in Campaigns : StartRoute(c, LongStartBody.player, LongStartBody.enemies)
    \/ \E c \in Campaigns, req \in LongRequests :
          ActionRoute(c, req.intent, req.snapshotHp, NarrowDice)

SpecCombatLong == CombatLongInit /\ [][CombatLongNext]_vars

\* resolveAction called with an attack roll the caller supplies or without one,
\* every face of the damage dice being explored; the call is recorded with the
\* dice it threw
AttackRoute(c, intent, attackRoll, dice) ==
    /\ callsLeft > 0
    /\ MapHas(battles, c)
    /\ \E pre \in {MapGet(battles, c)} :
       \E rolls \in RollChoices(dice, intent.action = "attack", LivingEnemies(pre)) :
       \E r \in {resolveAction(pre, intent, None, attackRoll, rolls)} :
           /\ battles' = MapSet(battles, c, r.state)
           /\ lastCall' = [op |-> "action", campaign |-> c, error |-> "",
                           intent |-> intent, snapshotHp |-> None,
                           attackRoll |-> attackRoll, rolls |-> rolls,
                           pre |-> pre, events |-> r.events]
    /\ callsLeft' = callsLeft - 1
    /\ UNCHANGED dmVars

\* every face of the d8 and the d6; the d20 misses, hits or is a critical
AttackDice ==
    [d20 |-> {f \in rollDie(20) : f \in {1, ArmorClass, 20}},
     d8 |-> rollDie(8), d6 |-> rollDie(6)]

AttackBodies ==
    { [player |-> [hp |-> Some(20), hp_max |-> Some(20)],
       enemies |-> << [id |-> "", hp |-> Some(10), hp_max |-> Some(10)] >>],
      [player |-> [hp |-> Some(8), hp_max |-> None],
       enemies |-> << [id |-> "", hp |-> None, hp_max |-> Some(30)] >>],
      [player |-> [hp |-> Some(8), hp_max |-> None],
       enemies |-> <<WeakEnemy>>] }

AttackIntents ==
    { [action |-> "attack", actor |-> "player", target |-> "enemy-0"],
      [action |-> "attack", actor |-> "enemy-0", target |-> "player"],
      [action |-> "attack", actor |-> "enemy-0", target |-> "enemy-0"],
      [action |-> "defend", actor |-> "player", target |-> ""] }

AttackRolls ==
    { NoAttackRoll,
      [d20 |-> Some(20), bonus |-> None, total |-> None],
      [d20 |-> Some(20), bonus |-> Some(0), total |-> Some(5)],
      [d20 |-> Some(ArmorClass), bonus |-> Some(2), total |-> Some(ArmorClass + 2)] }

AttackNext ==
    \/ \E body \in AttackBodies : StartRoute("c1", body.player, body.enemies)
    \/ \E intent \in AttackIntents, attackRoll \in AttackRolls :
          AttackRoute("c1", intent, attackRoll, AttackDice)

SpecAttack == CombatInit /\ [][AttackNext]_vars

----------------------------------------------------------------------------
(* Text.  A string is modelled by the sequence of its tokens: its lower-case
   words in reading order, and the marks below as tokens of their own.  A
   regular expression of the source becomes a test on tokens: \b(a|b c)\b is
   the occurrence of one of the phrases <<"a">>, <<"b", "c">>, and
   \b(..)\b.+\b(..)\b the occurrence of phrases in that order. *)

\* the three quote characters ["“”] the source treats alike
Quote == "\""
Newline == "\n"
SentenceMarks == {".", "!", "?"}

\* the phrases of an alternation of single words
Words(ws) == { <<w>> : w \in ws }

PhraseAt(text, i, phrase) ==
    /\ i >= 1
    /\ i + Len(phrase) - 1 <= Len(text)
    /\ \A k \in 1..Len(phrase) : text[i + k - 1] = phrase[k]

\* patterns.some(pattern => pattern.test(text)) for word and phrase patterns
hasAny(text, phrases) ==
    \E p \in phrases : \E i \in 1..Len(text) : PhraseAt(text, i, p)

\* RegExp.test for \b(g1)\b.+\b(g2)\b.+ ... : one phrase of every group, in order
RECURSIVE InOrderFrom(_, _, _, _)
InOrderFrom(text, groups, k, from) ==
    IF k > Len(groups) THEN TRUE
    ELSE \E p \in groups[k] : \E i \in from..Len(text) :
            PhraseAt(text, i, p) /\ InOrderFrom(text, groups, k + 1, i + Len(p))

InOrder(text, groups) == InOrderFrom(text, groups, 1, 1)

\* RegExp.test for ^\s*(p1|p2|...) followed by a word boundary
LeadIn(text, phrases) == \E p \in phrases : PhraseAt(text, 1, p)

\* String.prototype.trim on tokens: white space at both ends goes
RECURSIVE trim(_)
trim(text) ==
    IF text = <<>> THEN text
    ELSE IF Head(text) = Newline THEN trim(Tail(text))
    ELSE IF text[Len(text)] = Newline THEN trim(SubSeq(text, 1, Len(text) - 1))
    ELSE text

\* String.prototype.toLowerCase / toUpperCase on the capitalised strings that
\* occur in the explored requests and in the labels the code builds
LowerCase(s) ==
    CASE s = "Violence" -> "violence"
      [] s = "Melee" -> "melee"
      [] s = "Attack" -> "attack"
      [] s = "Spell" -> "spell"
      [] s = "Grapple" -> "grapple"
      [] s = "Ranged" -> "ranged"
      [] s = "Poisoned" -> "poisoned"
      [] s = "Exhaustion" -> "exhaustion"
      [] s = "Corruption" -> "corruption"
      [] OTHER -> s

UpperCase(s) ==
    CASE s = "str" -> "STR"
      [] s = "dex" -> "DEX"
      [] s = "cha" -> "CHA"
      [] OTHER -> s

\* the length of the string in characters: tokens joined by single spaces
RECURSIVE CharLen(_)
CharLen(text) ==
    IF text = <<>> THEN 0
    ELSE IF Len(text) = 1 THEN Len(text[1])
    ELSE Len(Head(text)) + 1 + CharLen(Tail(text))

----------------------------------------------------------------------------
(* diceRoutes.ts: the deterministic intent classifier *)

\* normalizeInput: lower case, one kind of quote, runs of white space (line
\* breaks included) become one space
normalizeInput(text) == SelectSeq(text, LAMBDA t : t # Newline)

\* /^\s*(i\s+)?(try|attempt)\s+to\b/i
TRY_PATTERN(text) ==
    LeadIn(text, { <<"try", "to">>, <<"attempt", "to">>,
                   <<"i", "try", "to">>, <<"i", "attempt", "to">> })

PERSON_TARGET_PATTERN(text) ==
    hasAny(text, Words({"him", "her", "them", "guard", "bartender", "barkeep",
                        "innkeeper", "man", "woman", "guy", "enemy", "foe", "npc",
                        "soldier", "bandit", "thug"}))

\* removes every quoted span ["“”][^"“”]*["“”]
RECURSIVE stripQuotedSegments(_)
stripQuotedSegments(text) ==
    LET opens == {i \in 1..Len(text) :
                     text[i] = Quote /\ \E j \in (i + 1)..Len(text) : text[j] = Quote}
    IN  IF opens = {} THEN text
        ELSE LET i == FirstOf(opens)
                 j == FirstOf({j \in (i + 1)..Len(text) : text[j] = Quote})
             IN  SubSeq(text, 1, i - 1) \o stripQuotedSegments(SubSeq(text, j + 1, Len(text)))

\* the three lead-in replacements of summarizeActionText, each needing a word
\* after the lead-in
StripLead(text, phrases) ==
    LET hits == {p \in phrases : PhraseAt(text, 1, p) /\ Len(text) > Len(p)}
        longest == CHOOSE p \in hits : \A q \in hits : Len(q) <= Len(p)
    IN  IF hits = {} THEN text ELSE SubSeq(text, Len(longest) + 1, Len(text))

\* text.split(/[.!?]/)[0]
FirstClause(text) ==
    LET ends == {i \in 1..Len(text) : text[i] \in SentenceMarks}
    IN  IF ends = {} THEN text ELSE SubSeq(text, 1, FirstOf(ends) - 1)

MaxWords == 6

summarizeActionText(rawText) ==
    LET unquoted == trim(stripQuotedSegments(rawText))
        t1 == StripLead(unquoted, { <<"try", "to">>, <<"attempt", "to">>,
                                    <<"i", "try", "to">>, <<"i", "attempt", "to">> })
        t2 == StripLead(t1, { <<"i", "want", "to">>, <<"i", "would", "like", "to">>,
                              <<"i", "am", "going", "to">>, <<"i", "will">>,
                              <<"i", "gonna">> })
        t3 == StripLead(t2, { <<"i">> })
        text == normalizeInput(t3)
        firstClause == FirstClause(text)
    IN  IF text = <<>> THEN <<>>
        ELSE IF Len(firstClause) <= MaxWords THEN firstClause
        ELSE Append(SubSeq(firstClause, 1, MaxWords), "...")

\* extractKeywords: lower case, only letters and digits, tokens longer than 2
extractKeywords(text) ==
    SelectSeq([i \in 1..Len(text) |-> LowerCase(text[i])],
              LAMBDA t : t \notin ({Quote, Newline, "..."} \cup SentenceMarks) /\ Len(t) > 2)

violenceWords ==
    Words({"attack", "hit", "punch", "kick", "strike", "stab", "slash", "cut", "shoot",
           "kill", "choke", "strangle", "grapple", "wrestle", "tackle", "disarm", "trip",
           "shove", "brawl", "duel", "fight", "bash", "smash"})

stealthWords ==
    Words({"sneak", "hide", "conceal", "shadow", "stalk", "steal", "pickpocket", "swipe",
           "snatch", "lockpick", "eavesdrop", "spy", "peek", "scout", "recon", "creep",
           "crawl"})
    \cup { <<"follow", "quietly">>, <<"pick", "the", "lock">>, <<"slip", "past">>,
           <<"avoid", "notice">> }

socialWords ==
    Words({"persuade", "convince", "negotiate", "bargain", "threaten", "intimidate",
           "lie", "bluff", "deceive", "trick", "flatter", "charm", "argue", "reason",
           "provoke", "calm", "reassure", "interrogate", "confront", "mock", "insult",
           "taunt"})

physicalWords ==
    Words({"jump", "leap", "hop", "vault", "climb", "scale", "balance", "run", "sprint",
           "swim", "backflip", "frontflip", "flip", "somersault", "cartwheel", "roll",
           "dive", "slide", "push", "pull", "lift", "carry", "throw", "drag", "break",
           "bend", "force", "smash", "kick", "acrobat", "acrobatics", "tumble",
           "parkour", "hang", "grip", "grab", "endure", "resist"})
    \cup { <<"shoulder", "bash">>, <<"hold", "on">>, <<"hold", "breath">> }

RoleWords ==
    {"bartender", "barkeep", "innkeeper", "guard", "man", "woman", "stranger",
     "soldier", "bandit", "thug"}

\* candidates: the scene participants [id, name], "" for an absent field; the
\* result is "" for null
detectTarget(text, candidates) ==
    LET matched == {i \in 1..Len(candidates) :
                       candidates[i].name # "" /\ hasAny(text, {<<candidates[i].name>>})}
        roles == {i \in 1..Len(text) :
                     PhraseAt(text, i, <<"the">>) /\ i < Len(text) /\ text[i + 1] \in RoleWords}
    IN  IF matched # {} /\ candidates[FirstOf(matched)].id # ""
        THEN candidates[FirstOf(matched)].id
        ELSE IF matched # {} THEN candidates[FirstOf(matched)].name
        ELSE IF roles # {} THEN text[FirstOf(roles) + 1]
        ELSE ""

resolveTargetLabel(target, candidates) ==
    LET matched == {i \in 1..Len(candidates) :
                       candidates[i].id = target \/ candidates[i].name = target}
    IN  IF target = "" THEN "Enemy"
        ELSE IF matched # {} /\ candidates[FirstOf(matched)].name # ""
        THEN candidates[FirstOf(matched)].name
        ELSE target

inferContextFlags(context) ==
    [indoors |-> hasAny(context, Words({"indoors", "inside", "room", "hall", "tavern", "inn"})),
     crowded |-> hasAny(context, Words({"crowd", "crowded", "packed", "busy"})),
     armored |-> hasAny(context, Words({"armored", "armoured", "armor", "armour", "plate",
                                        "mail", "chain"})),
     targetHostile |-> hasAny(context, Words({"hostile", "enemy", "bandit", "thug", "guard",
                                              "soldier"}))]

inferCombatProfile(rawText) ==
    LET normalized == normalizeInput(rawText)
    IN  IF hasAny(normalized, Words({"cast", "spell", "incant", "hex", "magic", "firebolt",
                                     "ray", "blast"}))
        THEN [stat |-> "INT", label |-> <<"Spell", "Attack">>, actionType |-> "spell"]
        ELSE IF hasAny(normalized, Words({"grapple", "wrestle", "tackle", "choke",
                                          "strangle", "trip", "shove"}))
        THEN [stat |-> "STR", label |-> <<"Grapple">>, actionType |-> "grapple"]
        ELSE IF hasAny(normalized, Words({"shoot", "fire", "bow", "arrow", "bolt",
                                          "crossbow", "rifle", "pistol", "throw"}))
        THEN [stat |-> "DEX", label |-> <<"Ranged", "Attack">>, actionType |-> "ranged"]
        ELSE [stat |-> "STR", label |-> <<"Melee", "Attack">>, actionType |-> "melee"]

\* the alternations (i'?ll|i will) and (i'?m gonna|i am going to|i will)
IWill == { <<"i'll">>, <<"ill">>, <<"i", "will">> }
IAmGoingTo == { <<"i'm", "gonna">>, <<"im", "gonna">>, <<"i", "am", "going", "to">>,
                <<"i", "will">> }

\* entry.patterns.some(pattern => pattern.test(text)) for the named entry
PatternTest(name, text) ==
    CASE name = "surrender_or_self_harm" ->
            hasAny(text, { <<"i", "give", "up">>, <<"i", "surrender">>, <<"i", "yield">>,
                           <<"i", "quit">>, <<"i", "stop", "resisting">>,
                           <<"just", "kill", "me">>, <<"let", "me", "die">>,
                           <<"i", "want", "to", "die">>, <<"i", "die">>,
                           <<"i", "don't", "want", "to", "fight">>,
                           <<"i", "dont", "want", "to", "fight">>,
                           <<"i", "won't", "fight">>, <<"i", "wont", "fight">> })
      [] name = "explicit_attack" ->
            \/ hasAny(text, Words({"attack"}))
            \/ InOrder(text, << Words({"hit", "punch", "stab", "slash", "shoot", "strike",
                                       "kick"}),
                                Words({"him", "her", "you", "bartender", "barkeep", "guard",
                                       "man", "woman", "enemy", "foe"}) >>)
            \/ InOrder(text, << { <<"i", "swing">>, <<"i", "lunge">>, <<"i", "charge">>,
                                  <<"i", "rush">>, <<"i", "strike">>, <<"i", "draw", "and">>,
                                  <<"i", "raise">> },
                                Words({"weapon", "sword", "dagger", "knife", "axe", "bow"}) >>)
      [] name = "coercion_threat" ->
            \/ InOrder(text, << Words({"if"}),
                                { <<"again">>, <<"one", "more", "time">>, <<"next", "time">> },
                                IWill \cup IAmGoingTo,
                                Words({"kill", "hurt", "break", "cut", "gut", "end",
                                       "cripple", "smash"}) >>)
            \/ InOrder(text, << { <<"one", "more">> }, Words({"and", "then"}),
                                IWill \cup { <<"you're">>, <<"youre">> },
                                Words({"dead", "done", "finished", "sorry", "regret"}) >>)
            \/ InOrder(text, << Words({"try", "do", "say"}),
                                { <<"again">>, <<"one", "more", "time">> }, Words({"and"}),
                                IWill \cup { <<"i", "swear">> } >>)
            \/ InOrder(text, << { <<"back", "off">>, <<"get", "away">>, <<"don't", "move">>,
                                  <<"dont", "move">>, <<"don't", "touch">>,
                                  <<"dont", "touch">>, <<"stay", "back">> },
                                Words({"or", "else"}), IWill >>)
            \/ hasAny(text, { <<"last", "warning">> })
            \/ hasAny(text, { <<"you'll", "regret">>, <<"youll", "regret">>,
                              <<"i'll", "make", "you", "regret">>,
                              <<"ill", "make", "you", "regret">> })
            \/ InOrder(text, << { <<"i", "swear">> }, IWill,
                                Words({"kill", "hurt", "break", "cut", "end"}) >>)
            \/ InOrder(text, << { <<"touch", "me">> }, Words({"and"}),
                                { <<"you're">>, <<"youre">>, <<"you", "are">>, <<"i'll">>,
                                  <<"ill">> },
                                Words({"dead", "done", "finished", "kill"}) >>)
            \/ InOrder(text, << IAmGoingTo,
                                Words({"kill", "hurt", "break", "cut", "end", "cripple"}) >>)
      [] name = "stealth_covert" ->
            \/ hasAny(text, { <<"slip", "past">>, <<"avoid", "notice">>,
                              <<"avoid", "being", "seen">>, <<"don't", "get", "seen">>,
                              <<"dont", "get", "seen">>, <<"stay", "unseen">>,
                              <<"hide">>, <<"conceal">>, <<"blend", "in">>,
                              <<"duck", "behind">>, <<"stay", "low">>,
                              <<"pickpocket">>, <<"swipe">>, <<"snatch">>, <<"lift">>,
                              <<"pick", "the", "lock">>, <<"lockpick">>,
                              <<"tamper", "with", "the", "lock">> })
            \/ InOrder(text, << Words({"follow", "shadow", "tail", "stalk"}),
                                { <<"quietly">>, <<"unseen">>, <<"from", "a", "distance">> } >>)
            \/ InOrder(text, << Words({"take"}),
                                { <<"without", "him", "noticing">>,
                                  <<"without", "her", "noticing">>,
                                  <<"without", "them", "noticing">>, <<"unnoticed">> } >>)
      [] name = "social_deception" ->
            \/ hasAny(text, { <<"pretend">>, <<"act", "like">>, <<"play", "the", "part">>,
                              <<"fake">> })
            \/ InOrder(text, << { <<"fake", "name">>, <<"false", "name">>, <<"make", "up">>,
                                  <<"invent">> },
                                Words({"story", "excuse", "reason"}) >>)
            \/ InOrder(text, << Words({"distract"}),
                                { <<"with", "talk">>, <<"with", "conversation">>,
                                  <<"by", "talking">> } >>)
      [] name = "social_persuasion" ->
            hasAny(text, { <<"convince">>, <<"talk", "him", "into">>, <<"talk", "her", "into">>,
                           <<"talk", "them", "into">>, <<"persuade">>, <<"negotiate">>,
                           <<"bargain">>, <<"offer">>, <<"deal">>, <<"calm", "down">>,
                           <<"let's", "talk">>, <<"lets", "talk">>,
                           <<"we", "don't", "have", "to", "fight">>,
                           <<"we", "dont", "have", "to", "fight">>, <<"stand", "down">> })
      [] name = "physical_stunt" ->
            \/ hasAny(text, { <<"flip">>, <<"backflip">>, <<"back", "flip">>, <<"frontflip">>,
                              <<"front", "flip">>, <<"somersault">>, <<"cartwheel">>,
                              <<"vault">>, <<"balance">>, <<"tightrope">>, <<"beam">>,
                              <<"ledge">> })
            \/ InOrder(text, << Words({"across"}), Words({"beam", "ledge", "railing"}) >>)
            \/ InOrder(text, << Words({"kick"}), Words({"door"}) >>)
            \/ InOrder(text, << Words({"break", "force"}),
                                Words({"door", "lock", "bar", "chain"}) >>)
      [] OTHER -> FALSE

\* the entries of the library in their order; escalation_hint is read by nothing
PATTERN_LIBRARY ==
    << [name |-> "surrender_or_self_harm", tag |-> "social", suggested_check |-> "none",
        stakes |-> "medium", reason |-> "surrender or refusal to act", action |-> "talk"],
       [name |-> "explicit_attack", tag |-> "violence", suggested_check |-> "combat",
        stakes |-> "medium", reason |-> "explicit attack intent", action |-> "attack"],
       [name |-> "coercion_threat", tag |-> "social", suggested_check |-> "contest",
        stakes |-> "medium", reason |-> "implicit threat or ultimatum", action |-> "talk"],
       [name |-> "stealth_covert", tag |-> "stealth", suggested_check |-> "contest",
        stakes |-> "medium", reason |-> "covert action", action |-> "attempt"],
       [name |-> "social_deception", tag |-> "social", suggested_check |-> "contest",
        stakes |-> "medium", reason |-> "deception or manipulation", action |-> "talk"],
       [name |-> "social_persuasion", tag |-> "social", suggested_check |-> "contest",
        stakes |-> "low", reason |-> "persuasion or negotiation", action |-> "talk"],
       [name |-> "physical_stunt", tag |-> "physical", suggested_check |-> "skill",
        stakes |-> "medium", reason |-> "physical stunt or force", action |-> "attempt"] >>

\* the index of the last entry that matches, 0 for null
matchPatternLibrary_lastMatch(text) ==
    IF \A i \in 1..Len(PATTERN_LIBRARY) : ~PatternTest(PATTERN_LIBRARY[i].name, text)
    THEN 0
    ELSE CHOOSE i \in 1..Len(PATTERN_LIBRARY) :
            /\ PatternTest(PATTERN_LIBRARY[i].name, text)
            /\ \A j \in (i + 1)..Len(PATTERN_LIBRARY) :
                  ~PatternTest(PATTERN_LIBRARY[j].name, text)

\* the index of the first entry that matches, 0 for null
matchPatternLibrary(text) ==
    FirstOf({i \in 1..Len(PATTERN_LIBRARY) : PatternTest(PATTERN_LIBRARY[i].name, text)})

LethalVerbs == Words({"kill", "strangle", "choke", "gut", "cripple"})

\* classifyIntent(text, {selectedTarget, sceneParticipants, gameContext});
\* target "" is null
classifyIntent(text, selectedTarget, sceneParticipants, gameContext) ==
    Only({
    LET attemptLead == TRY_PATTERN(normalized)
        hasPersonTarget == PERSON_TARGET_PATTERN(normalized)
        hasFireWeapon ==
            /\ hasAny(normalized, Words({"fire"}))
            /\ hasAny(normalized, Words({"bow", "gun", "weapon", "arrow", "bolt", "pistol",
                                         "rifle"}))
        hasThrowAtPerson ==
            /\ hasAny(normalized, Words({"throw"}))
            /\ hasAny(normalized, Words({"at", "into", "toward"}))
            /\ hasPersonTarget
        violenceMatch ==
            \/ hasAny(normalized, violenceWords)
            \/ hasFireWeapon
            \/ hasThrowAtPerson
            \/ (hasAny(normalized, Words({"kick"})) /\ hasPersonTarget)
            \/ (hasAny(normalized, Words({"smash"})) /\ hasPersonTarget)
        stealthMatch == hasAny(normalized, stealthWords)
        socialMatch == hasAny(normalized, socialWords)
        physicalMatch ==
            \/ hasAny(normalized, physicalWords)
            \/ (hasAny(normalized, Words({"kick"})) /\ ~hasPersonTarget)
            \/ (hasAny(normalized, Words({"smash"})) /\ ~hasPersonTarget)
            \/ (hasAny(normalized, Words({"throw"})) /\ ~hasThrowAtPerson)
    IN  IF pm # 0
        THEN LET patternMatch == PATTERN_LIBRARY[pm]
                 hasPretendCue == hasAny(normalized, { <<"pretend">>, <<"act", "like">>,
                                                       <<"play", "the", "part">>, <<"fake">> })
                 action == IF patternMatch.name = "social_deception" /\ hasPretendCue
                           THEN "attempt" ELSE patternMatch.action
             IN  [action |-> IF attemptLead /\ action = "talk" THEN "attempt" ELSE action,
                  target |-> target,
                  tags |-> <<patternMatch.tag>>,
                  stakes |-> IF hasAny(normalized, LethalVerbs) THEN "high"
                             ELSE patternMatch.stakes,
                  suggested_check |-> patternMatch.suggested_check,
                  reason |-> patternMatch.name \o ": " \o patternMatch.reason]
        ELSE IF violenceMatch
        THEN [action |-> "attack", target |-> target, tags |-> <<"violence">>,
              stakes |-> IF hasAny(normalized, Words({"kill", "strangle", "choke"}))
                         THEN "high" ELSE "medium",
              suggested_check |-> "combat", reason |-> "hostile action"]
        ELSE IF stealthMatch
        THEN [action |-> "attempt", target |-> target, tags |-> <<"stealth">>,
              stakes |-> IF contextFlags.targetHostile THEN "medium" ELSE "low",
              suggested_check |-> "contest", reason |-> "stealth action"]
        ELSE IF socialMatch
        THEN [action |-> IF attemptLead THEN "attempt" ELSE "talk", target |-> target,
              tags |-> <<"social">>,
              stakes |-> IF hasAny(normalized, Words({"threaten", "intimidate"}))
                         THEN "medium" ELSE "low",
              suggested_check |-> "contest", reason |-> "social pressure"]
        ELSE IF physicalMatch
        THEN [action |-> "attempt", target |-> target, tags |-> <<"physical">>,
              stakes |-> IF contextFlags.indoors \/ contextFlags.crowded \/ contextFlags.armored
                         THEN "medium" ELSE "low",
              suggested_check |-> "skill", reason |-> "physical strain"]
        ELSE IF attemptLead
        THEN [action |-> "attempt", target |-> target, tags |-> <<"physical">>,
              stakes |-> "medium", suggested_check |-> "skill",
              reason |-> "attempted action"]
        ELSE [action |-> "talk", target |-> target, tags |-> <<>>, stakes |-> "low",
              suggested_check |-> "none", reason |-> "safe interaction"]
    : normalized \in {normalizeInput(text)},
      target \in {IF selectedTarget # "" THEN selectedTarget
                  ELSE detectTarget(text, sceneParticipants)},
      contextFlags \in {inferContextFlags(gameContext)},
      pm \in {matchPatternLibrary(normalizeInput(text))} })

\* generateCheckId: `check_${Date.now()}_${Math.random().toString(36).slice(2, 6)}`
generateCheckId(time, random) == "check_" \o ToString(time) \o "_" \o random

\* a || b for strings ("" is null or empty) and for texts
OrStr(a, b) == IF a = "" THEN b ELSE a
OrText(a, b) == IF a = <<>> THEN b ELSE a

\* resolveCheck: <<>> for null, else the one check; difficulty is <<n>> for a
\* number and <<>> for 'opposed'.  Every explored text is at most 120
\* characters long, so baseContext is the text itself.
resolveCheck(intent, rawText, gameContext, id) ==
    LET summaryContext == summarizeActionText(rawText)
        tagged(tag) == \E i \in 1..Len(intent.tags) : intent.tags[i] = tag
        isLockpick == hasAny(rawText, { <<"lockpick">>, <<"pick", "the", "lock">> })
        isStunt == hasAny(rawText, Words({"backflip", "frontflip", "flip", "somersault",
                                          "cartwheel", "vault", "balance", "tumble",
                                          "acrobatics", "parkour", "climb", "jump", "leap",
                                          "dive", "slide", "roll"}))
        isForce == hasAny(rawText, Words({"break", "force", "push", "pull", "lift", "carry",
                                          "drag", "bend", "smash", "kick"})
                                   \cup { <<"shoulder", "bash">> })
        isEndure == hasAny(rawText, Words({"endure", "resist"}) \cup { <<"hold", "breath">> })
        contextFlags == inferContextFlags(gameContext)
        context(default) == OrText(OrText(summaryContext, rawText), default)
    IN  IF intent.suggested_check \in {"none", "combat"} THEN <<>>
        ELSE IF tagged("stealth")
        THEN << [id |-> id, type |-> "contest", actor |-> "player",
                 target |-> OrStr(intent.target, "npc"), stat |-> "DEX",
                 difficulty |-> IF intent.target # "" THEN <<>> ELSE <<13>>,
                 context |-> context(IF isLockpick THEN <<"pick", "the", "lock">>
                                     ELSE <<"slip", "past", "unnoticed">>),
                 reason |-> IF isLockpick THEN "lockpick" ELSE "stealth"] >>
        ELSE IF tagged("social")
        THEN << [id |-> id, type |-> "contest", actor |-> "player",
                 target |-> OrStr(intent.target, "npc"), stat |-> "CHA",
                 difficulty |-> IF intent.target # "" THEN <<>> ELSE <<13>>,
                 context |-> context(<<"pressure", "the", "target">>),
                 reason |-> "social"] >>
        ELSE IF tagged("physical")
        THEN << [id |-> id, type |-> IF isEndure THEN "save" ELSE "skill",
                 actor |-> "player", target |-> intent.target,
                 stat |-> IF isEndure THEN "CON" ELSE IF isStunt THEN "DEX" ELSE "STR",
                 difficulty |-> IF contextFlags.indoors \/ contextFlags.crowded
                                   \/ contextFlags.armored
                                THEN <<13>> ELSE <<12>>,
                 context |-> context(IF isEndure THEN <<"endure", "the", "strain">>
                                     ELSE IF isStunt THEN <<"pull", "off", "the", "stunt">>
                                     ELSE <<"force", "the", "obstacle">>),
                 reason |-> IF isEndure THEN "endurance"
                            ELSE IF isStunt THEN "stunt" ELSE "physical force"] >>
        ELSE <<>>

----------------------------------------------------------------------------
(* avatarService.ts: segmentMessage and annotateSegments *)

\* text.split(/\r?\n/)
RECURSIVE SplitLines(_)
SplitLines(text) ==
    LET breaks == {i \in 1..Len(text) : text[i] = Newline}
    IN  IF breaks = {} THEN <<text>>
        ELSE <<SubSeq(text, 1, FirstOf(breaks) - 1)>>
             \o SplitLines(SubSeq(text, FirstOf(breaks) + 1, Len(text)))

\* splitQuotedSegments: the pieces of a line, a quoted span ["“”]([^"“”]+)["“”]
\* being a piece of its own
RECURSIVE splitQuotedSegments(_)
splitQuotedSegments(line) ==
    LET opens == {i \in 1..Len(line) :
                     /\ line[i] = Quote
                     /\ i + 1 <= Len(line) /\ line[i + 1] # Quote
                     /\ \E j \in (i + 2)..Len(line) : line[j] = Quote}
    IN  IF opens = {}
        THEN IF line = <<>> THEN <<>> ELSE << [type |-> "text", value |-> line] >>
        ELSE LET i == FirstOf(opens)
                 j == FirstOf({j \in (i + 2)..Len(line) : line[j] = Quote})
                 before == SubSeq(line, 1, i - 1)
             IN  (IF before = <<>> THEN <<>> ELSE << [type |-> "text", value |-> before] >>)
                 \o << [type |-> "quote", value |-> SubSeq(line, i + 1, j - 1)] >>
                 \o splitQuotedSegments(SubSeq(line, j + 1, Len(line)))

\* the longest text a segment may have before it is cut into sentences
LongSegment == 120

\* segmentText.split(/(?<=[.!?])\s+/): the text cut after every sentence mark
RECURSIVE SplitSentences(_)
SplitSentences(text) ==
    LET ends == {i \in 1..(Len(text) - 1) : text[i] \in SentenceMarks}
    IN  IF ends = {} THEN IF text = <<>> THEN <<>> ELSE <<text>>
        ELSE <<SubSeq(text, 1, FirstOf(ends))>>
             \o SplitSentences(SubSeq(text, FirstOf(ends) + 1, Len(text)))

\* the segment texts of one line
LineSegments(line) ==
    LET pieces == splitQuotedSegments(line)
        expanded == [i \in 1..Len(pieces) |->
                        IF pieces[i].type = "quote"
                        THEN <<Quote>> \o pieces[i].value \o <<Quote>>
                        ELSE pieces[i].value]
        lineSegments == IF expanded # <<>> THEN expanded ELSE <<line>>
        cut(segmentText) ==
            IF CharLen(segmentText) > LongSegment /\ hasAny(segmentText, Words(SentenceMarks))
            THEN SplitSentences(segmentText)
            ELSE <<segmentText>>
    IN  [k \in 1..Len(lineSegments) |-> cut(lineSegments[k])]

RECURSIVE Flatten(_)
Flatten(seqs) == IF seqs = <<>> THEN <<>> ELSE Head(seqs) \o Flatten(Tail(seqs))

segmentMessage(text) ==
    LET lines == SelectSeq(SplitLines(text), LAMBDA line : line # <<>>)
        found == Flatten(Flatten([l \in 1..Len(lines) |-> LineSegments(lines[l])]))
        texts == IF found = <<>> /\ trim(text) # <<>> THEN <<trim(text)>> ELSE found
    IN  [k \in 1..Len(texts) |-> [id |-> "seg-" \o ToString(k), text |-> texts[k]]]

detectPastRef(segmentText) ==
    hasAny(segmentText,
           { <<"i", "thought">>, <<"i", "tried">>, <<"turns", "out">>, <<"i", "couldn't">>,
             <<"i", "couldnt">>, <<"i", "did">>, <<"i", "didn't">>, <<"i", "didnt">>,
             <<"i", "was", "going", "to">>, <<"earlier">>, <<"a", "moment", "ago">>,
             <<"just", "now">>,
             <<"was">>, <<"were">>,
             <<"tried">>, <<"couldn't">>, <<"couldnt">>, <<"didn't">>, <<"didnt">>,
             <<"wasn't">>, <<"wasnt">>, <<"weren't">>, <<"werent">>,
             <<"my", "bad">>, <<"sorry">>, <<"oops">>, <<"i", "didn't", "mean">>,
             <<"i", "didnt", "mean">>, <<"i", "just", "thought">> })

detectRequest(segmentText) ==
    hasAny(segmentText,
           { <<"can", "you">>, <<"could", "you">>, <<"give", "me">>, <<"i", "ask", "for">>,
             <<"i", "order">>, <<"i'd", "like">>, <<"id", "like">>, <<"please">>,
             <<"barkeep">>, <<"bartender">> })

\* a text wholly inside quotes, or /^\s*i\s+(say|tell|ask)\b/i
detectSpeech(segmentText) ==
    LET t == trim(segmentText)
    IN  \/ Len(t) >= 3 /\ t[1] = Quote /\ t[Len(t)] = Quote
        \/ LeadIn(segmentText, { <<"i", "say">>, <<"i", "tell">>, <<"i", "ask">> })

detectActionNow(segmentText) ==
    \/ hasAny(segmentText, Words({"attack", "strike", "swing", "shoot", "stab", "slash",
                                  "kick", "punch", "grapple"}))
    \/ hasAny(segmentText, { <<"try", "to">>, <<"attempt", "to">> })
    \/ hasAny(segmentText, Words({"jump", "climb", "flip", "vault", "sneak", "hide",
                                  "steal"}))

\* the hint annotateSegments gives one segment
SegmentHint(segmentText) ==
    LET pastRef == detectPastRef(segmentText)
        h1 == IF pastRef THEN "PAST_REF" ELSE "UNKNOWN"
        h2 == IF h1 # "PAST_REF" /\ detectSpeech(segmentText) THEN "SPEECH" ELSE h1
        h3 == IF h2 # "PAST_REF" /\ detectRequest(segmentText) THEN "REQUEST" ELSE h2
    IN  IF h3 = "UNKNOWN" /\ detectActionNow(segmentText) THEN "ACTION_NOW" ELSE h3

\* annotateSegments; only id, text, hint and noRollCandidate are kept: the
\* confidence, the markers and the anchor match go to the router's prompt
\* and are read by nothing else
annotateSegments(segments) ==
    [k \in 1..Len(segments) |->
        LET hint == SegmentHint(segments[k].text)
            isTrivial ==
                /\ hasAny(segments[k].text,
                          Words({"ale", "water", "bread", "room", "information", "name"}))
                /\ ~hasAny(segments[k].text,
                           Words({"threaten", "insult", "intimidate", "steal", "refuse",
                                  "demand"}))
        IN  [id |-> segments[k].id, text |-> segments[k].text, hint |-> hint,
             noRollCandidate |-> \/ hint \in {"PAST_REF", "SPEECH"}
                                 \/ (hint = "REQUEST" /\ isTrivial)]]

----------------------------------------------------------------------------
(* diceRoutes.ts: decisions and checks of POST /dm-response *)

\* An IntentDecision as the handler reads it.  Every field is <<>> when it is
\* absent or null and <<v>> when it carries v; actionLabel carries a text.
DecisionFields ==
    {"primarySegmentId", "intentType", "domain", "shouldRoll", "stat", "skill", "dc",
     "actionLabel", "narration"}

\* String(x || '') of an optional string, x || <<>> of an optional text
StrOf(x) == IF x = <<>> THEN "" ELSE x[1]
TextOf(x) == IF x = <<>> THEN <<>> ELSE x[1]

\* lines 1479-1483: the index of the primary segment, 0 when there is none
primarySegmentOf(segments) ==
    LET hinted(hs) == {k \in 1..Len(segments) : segments[k].hint \in hs}
    IN  IF hinted({"REQUEST"}) # {} THEN FirstOf(hinted({"REQUEST"}))
        ELSE IF hinted({"ACTION_NOW"}) # {} THEN FirstOf(hinted({"ACTION_NOW"}))
        ELSE IF \E k \in 1..Len(segments) : segments[k].hint # "PAST_REF"
        THEN FirstOf({k \in 1..Len(segments) : segments[k].hint # "PAST_REF"})
        ELSE IF segments # <<>> THEN 1 ELSE 0

\* lines 1478-1496: the decision built from the deterministic classifier
fallbackDecision(segments, fallbackIntent, playerAction, gameContext, id) ==
    Only({
    LET hint == IF p = 0 THEN "" ELSE segments[p].hint
        primaryText == IF p = 0 THEN <<>> ELSE segments[p].text
    IN  [primarySegmentId |-> << IF p = 0 THEN "seg-1" ELSE segments[p].id >>,
         intentType |-> << OrStr(hint, "UNKNOWN") >>,
         domain |-> << IF fallbackIntent.tags # <<>> THEN fallbackIntent.tags[1]
                       ELSE IF fallbackIntent.action = "attack" THEN "violence"
                       ELSE "other" >>,
         shouldRoll |-> << resolvedCheck # <<>> /\ hint = "ACTION_NOW" >>,
         stat |-> IF resolvedCheck = <<>> THEN <<>> ELSE << resolvedCheck[1].stat >>,
         skill |-> <<>>,
         dc |-> IF resolvedCheck = <<>> THEN <<>> ELSE resolvedCheck[1].difficulty,
         actionLabel |->
            Only({ IF label = <<>> THEN <<>> ELSE <<label>> :
                   label \in {OrText(summarizeActionText(OrText(primaryText, playerAction)),
                                     summarizeActionText(playerAction))} }),
         narration |-> <<>>]
    : p \in {primarySegmentOf(segments)},
      resolvedCheck \in {resolveCheck(fallbackIntent, playerAction, gameContext, id)} })

buildCombatCheck(intent, rawText, sceneParticipants, id) ==
    LET profile == inferCombatProfile(rawText)
    IN  [id |-> id, type |-> "attack", actor |-> "player", target |-> intent.target,
         targetLabel |-> resolveTargetLabel(intent.target, sceneParticipants),
         stat |-> profile.stat, difficulty |-> 10, context |-> profile.label,
         reason |-> profile.actionType,
         intent |-> [action |-> intent.action, tags |-> intent.tags,
                     target |-> intent.target]]

Stats == {"STR", "DEX", "CON", "INT", "WIS", "CHA"}

\* buildDecisionCheck: <<>> for null, else the one PendingCheck; absent
\* fields of the check are "" (strings) or <<>> (texts)
buildDecisionCheck(decision, target, rawText, sceneParticipants, id) ==
    LET domain == LowerCase(StrOf(decision.domain))
        intentType == OrStr(StrOf(decision.intentType), "UNKNOWN")
        statValue == UpperCase(StrOf(decision.stat))
        actionLabel == trim(TextOf(decision.actionLabel))
        skill == StrOf(decision.skill)
        combatCheck == buildCombatCheck([action |-> "attack", target |-> target,
                                         tags |-> <<"violence">>],
                                        rawText, sceneParticipants, id)
    IN  IF domain = "violence"
        THEN << [combatCheck EXCEPT !.context = OrText(actionLabel, combatCheck.context)]
                @@ [actionLabel |-> actionLabel, domain |-> domain, skill |-> skill,
                    intentType |-> intentType] >>
        ELSE IF statValue \notin Stats THEN <<>>
        ELSE IF domain \in {"social", "stealth"}
        THEN << [id |-> id, type |-> "contest", actor |-> "player",
                 target |-> OrStr(target, "npc"), targetLabel |-> "", stat |-> statValue,
                 difficulty |-> IF decision.dc # <<>> THEN decision.dc[1] ELSE 13,
                 context |-> OrText(OrText(actionLabel, summarizeActionText(rawText)),
                                    <<"pressure", "the", "target">>),
                 reason |-> domain, actionLabel |-> actionLabel, domain |-> domain,
                 skill |-> skill, intentType |-> intentType,
                 intent |-> [action |-> "", tags |-> <<>>, target |-> ""]] >>
        ELSE << [id |-> id,
                 type |-> IF statValue = "CON" THEN "save" ELSE "skill",
                 actor |-> "player", target |-> target, targetLabel |-> "",
                 stat |-> statValue,
                 difficulty |-> IF decision.dc # <<>> THEN decision.dc[1] ELSE 12,
                 context |-> OrText(OrText(actionLabel, summarizeActionText(rawText)),
                                    <<"overcome", "the", "challenge">>),
                 reason |-> OrStr(domain, "physical"), actionLabel |-> actionLabel,
                 domain |-> OrStr(domain, "physical"), skill |-> skill,
                 intentType |-> intentType,
                 intent |-> [action |-> "", tags |-> <<>>, target |-> ""]] >>

\* a LastResolvedAction as the three update sites build it
resolvedAction(label, domain, stat, skill, time) ==
    [summary |-> label, domain |-> domain, stat |-> stat, skill |-> skill,
     timestamp |-> time, keywords |-> extractKeywords(label)]

----------------------------------------------------------------------------
(* diceRoutes.ts: POST /dm-response.  A request runs from its arrival to its
   first await in one step, and from each await to the next in one step;
   requests in flight interleave at their awaits. *)

MaxDmRequests == 2
MaxInFlight == 2
Slots == 1..MaxInFlight

Idle == [pc |-> "idle"]

\* the dice explored when a roll result resolves an attack check: every d20
\* of DiceSample, the highest damage
DmDice == [d20 |-> DiceSample(20), d8 |-> {f \in rollDie(8) : f = 8},
           d6 |-> {f \in rollDie(6) : f = 6}]

\* gameStateByCampaign.get(campaignKey) || { lastResolvedAction: null, turnIndex: 0 }
gameStateOf(campaignKey) ==
    IF MapHas(gameStateByCampaign, campaignKey) THEN MapGet(gameStateByCampaign, campaignKey)
    ELSE [lastResolvedAction |-> <<>>, turnIndex |-> Some(0)]

\* lines 1291-1293: the store with the campaign's turn counted
turnCounted(campaignKey) ==
    MapSet(gameStateByCampaign, campaignKey,
           [gameStateOf(campaignKey) EXCEPT
               !.turnIndex = Some((IF IsNumber(@) THEN Num(@) ELSE 0) + 1)])

\* updateLastResolvedAction: the stored object is replaced by one that has
\* only lastResolvedAction
updateLastResolvedAction(store, campaignKey, next) ==
    MapSet(store, campaignKey, [lastResolvedAction |-> <<next>>, turnIndex |-> None])

\* the guard of lines 1296-1298
rollMatches(body, campaignKey) ==
    /\ body.rollResult # <<>>
    /\ body.pendingCheckId # ""
    /\ MapHas(pendingChecks, campaignKey)
    /\ MapGet(pendingChecks, campaignKey).id = body.pendingCheckId

\* a request that carries a roll result and a check id that match no stored check
isStray(body, campaignKey) ==
    /\ body.rollResult # <<>>
    /\ body.pendingCheckId # ""
    /\ ~rollMatches(body, campaignKey)

\* a roll branch that starts a battle whether or not one is stored
battleForRoll_fresh(campaignKey, snapshotHp) ==
    startBattle(campaignKey,
                [id |-> "player", type |-> "player",
                 hp |-> IF IsNumber(snapshotHp) THEN Num(snapshotHp) ELSE 20,
                 hp_max |-> IF IsNumber(snapshotHp) THEN Num(snapshotHp) ELSE 20,
                 statuses |-> <<>>],
                << [id |-> "enemy-0", type |-> "enemy", hp |-> 12, hp_max |-> 12,
                    statuses |-> <<>>] >>)

\* lines 1303-1327: the campaign's battle, started when there is none
battleForRoll(campaignKey, snapshotHp) ==
    IF MapHas(battles, campaignKey) THEN MapGet(battles, campaignKey)
    ELSE startBattle(campaignKey,
                     [id |-> "player", type |-> "player",
                      hp |-> IF IsNumber(snapshotHp) THEN Num(snapshotHp) ELSE 20,
                      hp_max |-> IF IsNumber(snapshotHp) THEN Num(snapshotHp) ELSE 20,
                      statuses |-> <<>>],
                     << [id |-> "enemy-0", type |-> "enemy", hp |-> 12, hp_max |-> 12,
                         statuses |-> <<>>] >>)

\* lines 1329-1333
rollTargetId(battleState, pending) ==
    LET living == {i \in 1..Len(battleState.entities) :
                      /\ battleState.entities[i].type = "enemy"
                      /\ battleState.entities[i].hp > 0}
    IN  IF pending.target # "" /\ FindById(battleState.entities, pending.target) # 0
        THEN pending.target
        ELSE IF living # {} THEN battleState.entities[FirstOf(living)].id
        ELSE ""

\* lines 1335-1342 and 1354-1360: the attackRoll handed to resolveAction
suppliedAttackRoll(rollResult) ==
    LET rollTotal == IF IsNumber(rollResult.total) THEN Num(rollResult.total)
                     ELSE IF IsNumber(rollResult.result) THEN Num(rollResult.result)
                     ELSE 0
        rollBonus == IF IsNumber(rollResult.bonus) THEN Num(rollResult.bonus)
                     ELSE IF IsNumber(rollResult.d20) THEN rollTotal - Num(rollResult.d20)
                     ELSE 0
    IN  IF IsNumber(rollResult.d20)
        THEN [d20 |-> rollResult.d20, bonus |-> Some(rollBonus), total |-> Some(rollTotal)]
        ELSE NoAttackRoll

\* the request is rejected before anything is read or written
DmReject(body) ==
    /\ callsLeft > 0
    /\ body.playerAction = <<>>
    /\ callsLeft' = callsLeft - 1
    /\ lastCall' = [op |-> "dm-reject", status |-> 400]
    /\ UNCHANGED <<battles, pendingChecks, gameStateByCampaign, inflight, now, history>>

\* the slot a new request takes: the lowest idle one
FreeSlot(slot) ==
    /\ inflight[slot].pc = "idle"
    /\ \A s \in Slots : s < slot => inflight[s].pc # "idle"

\* arrival of a roll result for the stored attack check: lines 1290-1364
DmRollAttack(slot, body) ==
    /\ callsLeft > 0
    /\ FreeSlot(slot)
    /\ body.playerAction # <<>>
    /\ \E campaignKey \in {OrStr(body.campaignId, "default")} :
          /\ rollMatches(body, campaignKey)
          /\ \E pending \in {MapGet(pendingChecks, campaignKey)} :
                /\ pending.type = "attack"
                /\ \E battleState \in {battleForRoll(campaignKey, body.snapshotHp)},
                      attackRoll \in {suppliedAttackRoll(body.rollResult[1])} :
                   \E rolls \in {r \in RollChoices(DmDice, TRUE, LivingEnemies(battleState)) :
                                      IsNumber(attackRoll.d20) => r.pd20 = 1} :
                   \E intent \in {[action |-> "attack", actor |-> "player",
                                   target |-> rollTargetId(battleState, pending)]} :
                   \E resolved \in {resolveAction(battleState, intent, body.snapshotHp,
                                                  attackRoll, rolls)} :
                      /\ battles' = MapSet(battles, campaignKey, resolved.state)
                      /\ lastCall' = [op |-> "dm-roll", campaign |-> campaignKey,
                                      check |-> pending, stray |-> FALSE,
                                      intent |-> intent, snapshotHp |-> body.snapshotHp,
                                      rollResult |-> body.rollResult[1],
                                      attackRoll |-> attackRoll, pre |-> battleState,
                                      events |-> resolved.events]
                /\ pendingChecks' = MapDelete(pendingChecks, campaignKey)
                /\ gameStateByCampaign' = turnCounted(campaignKey)
                /\ inflight' = [inflight EXCEPT ![slot] =
                                   [pc |-> "combatNarration", campaignKey |-> campaignKey,
                                    pending |-> pending]]
                /\ history' = [history EXCEPT !.resolved = Append(@, pending.id)]
    /\ callsLeft' = callsLeft - 1
    /\ now' = now + 1

\* arrival of a roll result for a stored check of another type: lines 1290-1406
DmRollCheck(slot, body) ==
    /\ callsLeft > 0
    /\ FreeSlot(slot)
    /\ body.playerAction # <<>>
    /\ \E campaignKey \in {OrStr(body.campaignId, "default")} :
          /\ rollMatches(body, campaignKey)
          /\ \E pending \in {MapGet(pendingChecks, campaignKey)} :
                /\ pending.type # "attack"
                /\ pendingChecks' = MapDelete(pendingChecks, campaignKey)
                /\ gameStateByCampaign' = turnCounted(campaignKey)
                /\ inflight' = [inflight EXCEPT ![slot] =
                                   [pc |-> "rollNarration", campaignKey |-> campaignKey,
                                    pending |-> pending]]
                /\ history' = [history EXCEPT !.resolved = Append(@, pending.id)]
                /\ lastCall' = [op |-> "dm-roll", campaign |-> campaignKey,
                                check |-> pending, stray |-> FALSE]
    /\ callsLeft' = callsLeft - 1
    /\ now' = now + 1
    /\ UNCHANGED battles

\* arrival of any other request: lines 1290-1456, up to the intent router's await
DmAct(slot, body) ==
    /\ callsLeft > 0
    /\ FreeSlot(slot)
    /\ body.playerAction # <<>>
    /\ \E campaignKey \in {OrStr(body.campaignId, "default")} :
          /\ ~rollMatches(body, campaignKey)
          /\ gameStateByCampaign' = turnCounted(campaignKey)
          /\ inflight' = [inflight EXCEPT ![slot] =
                             [pc |-> "intentDecision", campaignKey |-> campaignKey,
                              body |-> body, stray |-> isStray(body, campaignKey)]]
          /\ lastCall' = [op |-> "dm-act", campaign |-> campaignKey,
                          stray |-> isStray(body, campaignKey)]
    /\ callsLeft' = callsLeft - 1
    /\ now' = now + 1
    /\ UNCHANGED <<battles, pendingChecks, history>>

\* lines 1472-1587 for one reply of the intent router: generated is <<>> when
\* generateIntentDecision throws and <<d>> when it returns the object d.
\* The result names the decision used, the PendingCheck stored (<<>> for
\* none), whether a battle is started and the LastResolvedAction written
\* (<<>> for none).
handleDecision(generated, body, hasBattle, id, time) ==
    Only({ Only({ Only({
        [decision |-> decision,
         pendingCheck |->
            IF pendingCheck = <<>> THEN <<>>
            ELSE << [pendingCheck[1] EXCEPT
                        !.intent = [action |-> fallbackIntent.action,
                                    tags |-> fallbackIntent.tags,
                                    target |-> fallbackIntent.target]] >>,
         startsBattle |-> pendingCheck # <<>> /\ pendingCheck[1].type = "attack" /\ ~hasBattle,
         resolved |->
            IF /\ pendingCheck = <<>>
               /\ decision.shouldRoll = <<FALSE>>
               /\ StrOf(decision.intentType) \notin {"PAST_REF", "SPEECH"}
               /\ trim(TextOf(decision.actionLabel)) # <<>>
            THEN << resolvedAction(trim(TextOf(decision.actionLabel)),
                                   OrStr(StrOf(decision.domain), "other"),
                                   StrOf(decision.stat), StrOf(decision.skill), time) >>
            ELSE <<>>]
        : pendingCheck \in
            { IF decision.shouldRoll = <<TRUE>>
              THEN buildDecisionCheck(decision,
                                      IF body.selectedTarget # "" THEN body.selectedTarget
                                      ELSE detectTarget(body.playerAction,
                                                        body.sceneParticipants),
                                      body.playerAction, body.sceneParticipants, id)
              ELSE <<>> } })
        : decision \in
            { IF generated # <<>> THEN generated[1]
              ELSE fallbackDecision(annotateSegments(segmentMessage(body.playerAction)),
                                    fallbackIntent, body.playerAction, body.gameContext,
                                    id) } })
        : fallbackIntent \in
            { classifyIntent(body.playerAction, body.selectedTarget,
                             body.sceneParticipants, body.gameContext) } })

\* lines 1510-1529: the battle the classification path starts
narrativeBattle(campaignKey) ==
    startBattle(campaignKey,
                [id |-> "player", type |-> "player", hp |-> 20, hp_max |-> 20,
                 statuses |-> <<>>],
                << [id |-> "enemy-0", type |-> "enemy", hp |-> 12, hp_max |-> 12,
                    statuses |-> <<>>] >>)

\* the intent router has answered: lines 1456-1587
DmDecided(slot, generated, random) ==
    /\ inflight[slot].pc = "intentDecision"
    /\ \E req \in {inflight[slot]} :
       \E h \in {handleDecision(generated, req.body, MapHas(battles, req.campaignKey),
                                generateCheckId(now, random), now)} :
          /\ battles' = IF h.startsBattle
                        THEN MapSet(battles, req.campaignKey, narrativeBattle(req.campaignKey))
                        ELSE battles
          /\ pendingChecks' = IF h.pendingCheck # <<>>
                              THEN MapSet(pendingChecks, req.campaignKey, h.pendingCheck[1])
                              ELSE pendingChecks
          /\ history' = IF h.pendingCheck # <<>>
                        THEN [history EXCEPT !.issued = Append(@, h.pendingCheck[1].id)]
                        ELSE history
          /\ gameStateByCampaign' =
                IF h.resolved # <<>>
                THEN updateLastResolvedAction(gameStateByCampaign, req.campaignKey,
                                              h.resolved[1])
                ELSE gameStateByCampaign
          /\ inflight' = [inflight EXCEPT ![slot] =
                             IF h.pendingCheck # <<>> THEN Idle
                             ELSE [pc |-> "narration", campaignKey |-> req.campaignKey,
                                   stray |-> req.stray]]
          /\ lastCall' = [op |-> "dm-decide", campaign |-> req.campaignKey,
                          stray |-> req.stray, generated |-> generated, body |-> req.body,
                          hadBattle |-> MapHas(battles, req.campaignKey),
                          checkId |-> generateCheckId(now, random), time |-> now,
                          handled |-> h]
    /\ now' = now + 1
    /\ UNCHANGED callsLeft

\* lines 1370-1380 and 1423-1433: the update that follows a narrated roll
rollResolved(pending, defaultDomain, time) ==
    IF pending.actionLabel # <<>> \/ pending.context # <<>>
    THEN << resolvedAction(OrText(pending.actionLabel, pending.context),
                           OrStr(pending.domain, defaultDomain), pending.stat,
                           pending.skill, time) >>
    ELSE <<>>

\* generateCombatNarration has returned (narrated) or thrown: lines 1364-1388
DmCombatNarrated(slot, narrated) ==
    /\ inflight[slot].pc = "combatNarration"
    /\ \E req \in {inflight[slot]} :
       \E next \in {rollResolved(req.pending, "violence", now)} :
          /\ gameStateByCampaign' =
                IF narrated /\ next # <<>>
                THEN updateLastResolvedAction(gameStateByCampaign, req.campaignKey, next[1])
                ELSE gameStateByCampaign
          /\ lastCall' = [op |-> "dm-roll-narrated", campaign |-> req.campaignKey,
                          stray |-> FALSE, check |-> req.pending,
                          status |-> IF narrated THEN 200 ELSE 500]
    /\ inflight' = [inflight EXCEPT ![slot] = Idle]
    /\ now' = now + 1
    /\ UNCHANGED <<battles, pendingChecks, callsLeft, history>>

\* buildBackstoryArcContext and generateDMResponse have returned (narrated) or
\* one of them has thrown: lines 1405-1448.  Nothing of the modelled state is
\* read or written between the two awaits.
DmRollNarrated(slot, narrated) ==
    /\ inflight[slot].pc = "rollNarration"
    /\ \E req \in {inflight[slot]} :
       \E next \in {rollResolved(req.pending, "other", now)} :
          /\ gameStateByCampaign' =
                IF narrated /\ next # <<>>
                THEN updateLastResolvedAction(gameStateByCampaign, req.campaignKey, next[1])
                ELSE gameStateByCampaign
          /\ lastCall' = [op |-> "dm-roll-narrated", campaign |-> req.campaignKey,
                          stray |-> FALSE, check |-> req.pending,
                          status |-> IF narrated THEN 200 ELSE 500]
    /\ inflight' = [inflight EXCEPT ![slot] = Idle]
    /\ now' = now + 1
    /\ UNCHANGED <<battles, pendingChecks, callsLeft, history>>

\* the narration of a request that needed no roll: lines 1589-1634
DmNarrated(slot, narrated) ==
    /\ inflight[slot].pc = "narration"
    /\ lastCall' = [op |-> "dm-narrated", campaign |-> inflight[slot].campaignKey,
                    stray |-> inflight[slot].stray,
                    status |-> IF narrated THEN 200 ELSE 500]
    /\ inflight' = [inflight EXCEPT ![slot] = Idle]
    /\ now' = now + 1
    /\ UNCHANGED <<battles, pendingChecks, gameStateByCampaign, callsLeft, history>>

----------------------------------------------------------------------------
(* The explored requests and replies *)

AttackText == <<"i", "attack", "the", "guard">>
ClimbText == <<"i", "try", "to", "climb", "the", "wall">>
SneakText == <<"i", "sneak", "past", "the", "guard">>
SpeechText == <<"i", "say", Quote, "hello", "there", Quote>>
PastText == <<"sorry", "i", "tried", "the", "door">>
RequestText == <<"please", "give", "me", "ale">>
LookText == <<"i", "look", "around">>

ActionTexts ==
    {AttackText, ClimbText, SneakText, SpeechText, PastText, RequestText, LookText}

\* roll results {d20, bonus, total, result} and the player snapshot's hp sent
\* with them
RollInputs ==
    { [rollResult |-> [d20 |-> Some(20), bonus |-> None, total |-> Some(5), result |-> None],
       snapshotHp |-> None],
      [rollResult |-> [d20 |-> Some(1), bonus |-> Some(24), total |-> Some(25),
                       result |-> None],
       snapshotHp |-> None],
      [rollResult |-> [d20 |-> Some(9), bonus |-> Some(1), total |-> Some(10),
                       result |-> None],
       snapshotHp |-> Some(5)],
      [rollResult |-> [d20 |-> Some(12), bonus |-> None, total |-> None, result |-> Some(9)],
       snapshotHp |-> None],
      [rollResult |-> [d20 |-> None, bonus |-> None, total |-> Some(15), result |-> None],
       snapshotHp |-> None] }

\* Math.random().toString(36).slice(2, 6)
RandomSuffixes == {"k3f9"}

\* the check ids a client may send: those of the stored checks and one that
\* was never issued
StrayCheckId == generateCheckId(0, "k3f9")
KnownCheckIds == {e.val.id : e \in pendingChecks} \cup {StrayCheckId}

DmCampaignIds == {"c1"}

DmBody(campaignId, playerAction, rollResult, pendingCheckId, snapshotHp) ==
    [campaignId |-> campaignId, playerAction |-> playerAction, rollResult |-> rollResult,
     pendingCheckId |-> pendingCheckId, snapshotHp |-> snapshotHp,
     selectedTarget |-> "", sceneParticipants |-> <<>>, gameContext |-> <<>>]

ActionBodies ==
    { DmBody(c, text, <<>>, "", None) : c \in DmCampaignIds, text \in ActionTexts }

RollBodies ==
    { DmBody(c, AttackText, <<input.rollResult>>, id, input.snapshotHp) :
        c \in DmCampaignIds, input \in RollInputs, id \in KnownCheckIds }

EmptyBodies == { DmBody(c, <<>>, <<>>, "", None) : c \in DmCampaignIds }

\* replies of the intent router that parse to an object
AttackDecision ==
    [primarySegmentId |-> <<"seg-1">>, intentType |-> <<"ACTION_NOW">>,
     domain |-> <<"Violence">>, shouldRoll |-> <<TRUE>>, stat |-> <<"str">>,
     skill |-> <<>>, dc |-> <<>>, actionLabel |-> << <<"attack", "the", "guard">> >>,
     narration |-> <<"Steel flashes.">>]
SpeechRollDecision ==
    [primarySegmentId |-> <<"seg-1">>, intentType |-> <<"SPEECH">>,
     domain |-> <<"social">>, shouldRoll |-> <<TRUE>>, stat |-> <<"CHA">>,
     skill |-> <<>>, dc |-> <<14>>, actionLabel |-> << <<"taunt", "the", "guard">> >>,
     narration |-> <<"The words hang in the air.">>]
PastRefDecision ==
    [primarySegmentId |-> <<"seg-1">>, intentType |-> <<"PAST_REF">>,
     domain |-> <<"other">>, shouldRoll |-> <<FALSE>>, stat |-> <<>>,
     skill |-> <<>>, dc |-> <<>>, actionLabel |-> << <<"recall", "the", "door">> >>,
     narration |-> <<"Nothing has changed.">>]
NoRollDecision ==
    [primarySegmentId |-> <<"seg-1">>, intentType |-> <<"ACTION_NOW">>,
     domain |-> <<"physical">>, shouldRoll |-> <<FALSE>>, stat |-> <<>>,
     skill |-> <<>>, dc |-> <<>>, actionLabel |-> << <<"look", "around">> >>,
     narration |-> <<"The room is quiet.">>]
EmptyObject == [f \in DecisionFields |-> <<>>]

\* what generateIntentDecision gives: it throws (the call fails, the reply has
\* no braces or does not parse), or it returns the parsed object unchecked
GenOutcomes ==
    { <<>>, <<AttackDecision>>, <<SpeechRollDecision>>, <<PastRefDecision>>,
      <<NoRollDecision>>, <<EmptyObject>> }

DmInit ==
    /\ battles = {}
    /\ lastCall = NoCall
    /\ callsLeft = MaxDmRequests
    /\ pendingChecks = {}
    /\ gameStateByCampaign = {}
    /\ inflight = [s \in Slots |-> Idle]
    /\ now = 1
    /\ history = NoHistory

DmNext ==
    \/ \E body \in EmptyBodies : DmReject(body)
    \/ \E slot \in Slots, body \in RollBodies : DmRollAttack(slot, body)
    \/ \E slot \in Slots, body \in RollBodies : DmRollCheck(slot, body)
    \/ \E slot \in Slots, body \in ActionBodies \cup RollBodies : DmAct(slot, body)
    \/ \E slot \in Slots, generated \in GenOutcomes, random \in RandomSuffixes :
          DmDecided(slot, generated, random)
    \/ \E slot \in Slots, narrated \in BOOLEAN : DmCombatNarrated(slot, narrated)
    \/ \E slot \in Slots, narrated \in BOOLEAN : DmRollNarrated(slot, narrated)
    \/ \E slot \in Slots, narrated \in BOOLEAN : DmNarrated(slot, narrated)

SpecDm == DmInit /\ [][DmNext]_vars

\* Four requests of one campaign, with the check ids a client has been sent:
\* every id a response has carried so far, whether its check is still stored,
\* has been replaced or has been rolled.
MaxRaceRequests == 4

IssuedCheckIds == {history.issued[i] : i \in 1..Len(history.issued)}

RaceActionBodies == { DmBody(c, AttackText, <<>>, "", None) : c \in DmCampaignIds }

RaceRollInputs == {input \in RollInputs : input.rollResult.d20 = Some(20)}

RaceRollBodies ==
    { DmBody(c, AttackText, <<input.rollResult>>, id, input.snapshotHp) :
        c \in DmCampaignIds, input \in RaceRollInputs, id \in IssuedCheckIds }

RaceOutcomes == { <<AttackDecision>>, <<SpeechRollDecision>>, <<NoRollDecision>> }

DmRaceInit ==
    /\ battles = {}
    /\ lastCall = NoCall
    /\ callsLeft = MaxRaceRequests
    /\ pendingChecks = {}
    /\ gameStateByCampaign = {}
    /\ inflight = [s \in Slots |-> Idle]
    /\ now = 1
    /\ history = NoHistory

DmRaceNext ==
    \/ \E slot \in Slots, body \in RaceRollBodies : DmRollAttack(slot, body)
    \/ \E slot \in Slots, body \in RaceRollBodies : DmRollCheck(slot, body)
    \/ \E slot \in Slots, body \in RaceActionBodies \cup RaceRollBodies : DmAct(slot, body)
    \/ \E slot \in Slots, generated \in RaceOutcomes, random \in RandomSuffixes :
          DmDecided(slot, generated, random)
    \/ \E slot \in Slots, narrated \in BOOLEAN : DmCombatNarrated(slot, narrated)
    \/ \E slot \in Slots, narrated \in BOOLEAN : DmRollNarrated(slot, narrated)
    \/ \E slot \in Slots, narrated \in BOOLEAN : DmNarrated(slot, narrated)

SpecDmRace == DmRaceInit /\ [][DmRaceNext]_vars

----------------------------------------------------------------------------
(* aiService.ts: normalizeStatusUpdate *)

\* A proposed status entry as normalizeStatusUpdate reads it.  The id is a
\* sequence of tokens (words, runs of digits, "_" and the blank " ") whose
\* concatenation is the string; name, mechanics, trigger and cure are texts of
\* lower-case words (every test on them ignores case); durationType is "" when
\* duration or its type is absent; severity is given in halves, so that 5 is
\* 2.5; an absent field is <<>>.  source and appliedAt are copied to the
\* result and read by nothing, they are left out.

\* the string a sequence of tokens spells
RECURSIVE JoinTokens(_)
JoinTokens(tokens) ==
    IF tokens = <<>> THEN "" ELSE Head(tokens) \o JoinTokens(Tail(tokens))

\* String.prototype.trim on the tokens of an id
RECURSIVE TrimBlanks(_)
TrimBlanks(tokens) ==
    IF tokens = <<>> THEN tokens
    ELSE IF Head(tokens) = " " THEN TrimBlanks(Tail(tokens))
    ELSE IF tokens[Len(tokens)] = " " THEN TrimBlanks(SubSeq(tokens, 1, Len(tokens) - 1))
    ELSE tokens

\* Number(digits) for the runs of digits of the explored ids and names, <<>>
\* for a token that is no run of digits
DigitRuns == {"0", "1", "2", "3", "4", "5", "6", "7", "8", "9", "10"}
NumberOf(token) ==
    CASE token = "0" -> 0 [] token = "1" -> 1 [] token = "2" -> 2 [] token = "3" -> 3
      [] token = "4" -> 4 [] token = "5" -> 5 [] token = "6" -> 6 [] token = "7" -> 7
      [] token = "8" -> 8 [] token = "9" -> 9 [] token = "10" -> 10

\* s.match(/(\d+)/): the first run of digits, <<>> for no match
FirstDigits(tokens) ==
    LET at == {i \in 1..Len(tokens) : tokens[i] \in DigitRuns}
    IN  IF at = {} THEN <<>> ELSE << NumberOf(tokens[FirstOf(at)]) >>

\* lines 2126-2147
canonicalStatusMap ==
    { [id |-> "poisoned", name |-> "Poisoned", type |-> "condition"],
      [id |-> "blinded", name |-> "Blinded", type |-> "condition"],
      [id |-> "charmed", name |-> "Charmed", type |-> "condition"],
      [id |-> "frightened", name |-> "Frightened", type |-> "condition"],
      [id |-> "paralyzed", name |-> "Paralyzed", type |-> "condition"],
      [id |-> "restrained", name |-> "Restrained", type |-> "condition"],
      [id |-> "stunned", name |-> "Stunned", type |-> "condition"],
      [id |-> "unconscious", name |-> "Unconscious", type |-> "condition"],
      [id |-> "invisible", name |-> "Invisible", type |-> "condition"],
      [id |-> "inspired", name |-> "Inspired", type |-> "buff"],
      [id |-> "blessed", name |-> "Blessed", type |-> "buff"],
      [id |-> "cursed", name |-> "Cursed", type |-> "debuff"],
      [id |-> "bleeding", name |-> "Bleeding", type |-> "debuff"],
      [id |-> "madness", name |-> "Madness", type |-> "debuff"],
      [id |-> "fear", name |-> "Fear", type |-> "debuff"],
      [id |-> "corruption", name |-> "Corruption", type |-> "debuff"],
      [id |-> "exhaustion", name |-> "Exhaustion", type |-> "debuff"] }

socialOrScenePattern(text) ==
    hasAny(text, Words({"crowd", "room", "tavern", "atmosphere", "reputation", "tension",
                        "patrons", "bystanders", "onlookers", "public", "rumor", "gossip",
                        "npc", "bartender", "barkeep", "innkeeper"}))

mechanicsPattern(text) ==
    hasAny(text, Words({"advantage", "disadvantage", "speed", "cannot", "can't", "cant",
                        "bonus", "penalty", "halved", "incapacitated", "ac", "damage",
                        "restrained", "stunned", "poisoned", "grappled", "prone",
                        "blinded", "deafened", "paralyzed", "unconscious", "invisible",
                        "exhaustion", "critical", "fails"})
                  \cup { <<"no", "reactions">>, <<"attack", "roll">>,
                         <<"saving", "throw">>, <<"ability", "check">>,
                         <<"auto", "fail">>, <<"auto", "fails">> })

triggerPattern(text) ==
    hasAny(text, Words({"save", "spell", "hit", "damage", "failed", "success", "check",
                        "dc", "poison", "venom", "curse", "ritual", "artifact", "touch",
                        "round", "turn", "start", "end", "after", "when", "on",
                        "critical"}))

validDuration == {"rounds", "minutes", "scene", "until_removed"}

NoRestrictions == <<>>
Frozen == [canAct |-> FALSE, canMove |-> FALSE, canSpeak |-> FALSE,
           reactionsAllowed |-> FALSE]

\* lines 2169-2345: the canonical definitions.  mechanics is the text whose
\* one token is the canonical sentence; an empty object is <<>>.
baseDefinitions ==
    { [id |-> "poisoned", name |-> "Poisoned", type |-> "debuff",
       mechanics |-> <<"Disadvantage on attack rolls and ability checks.">>,
       modifiers |-> [attackRolls |-> "dis", abilityChecks |-> "dis"],
       restrictions |-> NoRestrictions,
       narrationCues |-> <<"nausea", "shaky hands", "sweat", "slowed reactions">>],
      [id |-> "blinded", name |-> "Blinded", type |-> "debuff",
       mechanics |-> <<"Automatically fails sight-based checks. Attack rolls against you have advantage. Your attack rolls have disadvantage.">>,
       modifiers |-> [perceptionSight |-> "auto-fail",
                      attackRolls |-> "dis (self); attackers adv"],
       restrictions |-> [special |-> "Cannot target by sight unless guessing location."],
       narrationCues |-> <<"darkness", "blur", "hands searching", "missteps">>],
      [id |-> "charmed", name |-> "Charmed", type |-> "debuff",
       mechanics |-> <<"Cannot willingly attack the charmer. Charmer has advantage on social checks vs you.">>,
       modifiers |-> [actionAvailability |-> "cannot harm charmer"],
       restrictions |-> [cannotTargetCharmer |-> TRUE],
       narrationCues |-> <<"softened tone", "trusting posture", "rationalizing requests">>],
      [id |-> "frightened", name |-> "Frightened", type |-> "debuff",
       mechanics |-> <<"Disadvantage on attack rolls and ability checks while source is in sight. Cannot willingly move closer.">>,
       modifiers |-> [attackRolls |-> "dis (source in sight)",
                      abilityChecks |-> "dis (source in sight)"],
       restrictions |-> [cannotApproachSource |-> TRUE],
       narrationCues |-> <<"tight breath", "tunnel vision", "instinct to flee">>],
      [id |-> "paralyzed", name |-> "Paralyzed", type |-> "debuff",
       mechanics |-> <<"Incapacitated; cannot move or speak. Automatically fails STR/DEX saves. Attackers have advantage; melee hits within 5 ft are critical.">>,
       modifiers |-> [savingThrows |-> "STR/DEX auto-fail",
                      attackRolls |-> "attackers adv; melee crit within 5 ft"],
       restrictions |-> Frozen,
       narrationCues |-> <<"frozen muscles", "wide eyes", "no response">>],
      [id |-> "restrained", name |-> "Restrained", type |-> "debuff",
       mechanics |-> <<"Speed 0. Attack rolls against you have advantage. Your attack rolls have disadvantage. Disadvantage on DEX saves.">>,
       modifiers |-> [movementSpeed |-> "0", attackRolls |-> "dis (self); attackers adv",
                      savingThrows |-> "DEX dis"],
       restrictions |-> [canMove |-> FALSE, special |-> "Can attempt escape."],
       narrationCues |-> <<"bindings bite", "dragged posture", "limited swings">>],
      [id |-> "stunned", name |-> "Stunned", type |-> "debuff",
       mechanics |-> <<"Incapacitated; cannot move. Automatically fails STR/DEX saves. Attackers have advantage.">>,
       modifiers |-> [savingThrows |-> "STR/DEX auto-fail", attackRolls |-> "attackers adv"],
       restrictions |-> [canAct |-> FALSE, canMove |-> FALSE, reactionsAllowed |-> FALSE],
       narrationCues |-> <<"ringing ears", "blank stare", "delayed responses">>],
      [id |-> "unconscious", name |-> "Unconscious", type |-> "debuff",
       mechanics |-> <<"Incapacitated and prone. Automatically fails STR/DEX saves. Attackers have advantage; melee hits within 5 ft are critical.">>,
       modifiers |-> [savingThrows |-> "STR/DEX auto-fail",
                      attackRolls |-> "attackers adv; melee crit within 5 ft"],
       restrictions |-> Frozen,
       narrationCues |-> <<"collapse", "slack limbs", "shallow breath">>],
      [id |-> "invisible", name |-> "Invisible", type |-> "buff",
       mechanics |-> <<"Cannot be seen without special senses. Your attack rolls have advantage. Attack rolls against you have disadvantage.">>,
       modifiers |-> [attackRolls |-> "adv (self); attackers dis"],
       restrictions |-> [special |-> "Still detectable by sound or tracks."],
       narrationCues |-> <<"outline vanishes", "footsteps remain", "air shifts">>],
      [id |-> "inspired", name |-> "Inspired", type |-> "buff",
       mechanics |-> <<"Gain advantage on one chosen roll. Consumed on use.">>,
       modifiers |-> [attackRolls |-> "adv (one roll)", abilityChecks |-> "adv (one roll)",
                      savingThrows |-> "adv (one roll)"],
       restrictions |-> [special |-> "Consumed on use."],
       narrationCues |-> <<"surge of confidence", "clear focus", "steady hands">>],
      [id |-> "blessed", name |-> "Blessed", type |-> "buff",
       mechanics |-> <<"Add 1d4 to attack rolls and saving throws.">>,
       modifiers |-> [attackRolls |-> "+1d4", savingThrows |-> "+1d4"],
       restrictions |-> NoRestrictions,
       narrationCues |-> <<"faint glow", "calm certainty", "guided motion">>],
      [id |-> "cursed", name |-> "Cursed", type |-> "debuff",
       mechanics |-> <<"Disadvantage on specified rolls or saves, defined by the curse.">>,
       modifiers |-> [abilityChecks |-> "dis (specified)",
                      savingThrows |-> "dis (specified)"],
       restrictions |-> [special |-> "Curse may include compulsion or aversion."],
       narrationCues |-> <<"cold weight", "bad luck", "uneasy whispers">>],
      [id |-> "bleeding", name |-> "Bleeding", type |-> "debuff",
       mechanics |-> <<"Take damage at start of each turn. Severe bleeding imposes CON check disadvantage.">>,
       modifiers |-> [abilityChecks |-> "CON dis (severe)"],
       restrictions |-> [special |-> "May limit recovery until treated."],
       narrationCues |-> <<"dripping blood", "dizziness", "stained clothes">>,
       dot |-> [timing |-> "startOfTurn", amount |-> "1d4"]],
      [id |-> "madness", name |-> "Madness", type |-> "debuff",
       mechanics |-> <<"Disadvantage on WIS and CHA checks. Under stress, WIS saves may be required.">>,
       modifiers |-> [abilityChecks |-> "WIS/CHA dis",
                      savingThrows |-> "WIS dis (under stress)"],
       restrictions |-> [special |-> "May lose action on failed stress save."],
       narrationCues |-> <<"intrusive thoughts", "paranoia", "dissociation">>],
      [id |-> "fear", name |-> "Fear", type |-> "debuff",
       mechanics |-> <<"When confronting the fear trigger, make a WIS save or become Frightened for the scene.">>,
       modifiers |-> [savingThrows |-> "WIS save on trigger"],
       restrictions |-> [special |-> "Avoidance behavior unless save succeeds."],
       narrationCues |-> <<"flashbacks", "freezing", "shaky voice">>],
      [id |-> "corruption", name |-> "Corruption", type |-> "debuff",
       mechanics |-> <<"Progressive debuff to WIS/CHA with hallucination or impulse triggers at higher tiers.">>,
       modifiers |-> [savingThrows |-> "WIS penalty by tier",
                      abilityChecks |-> "WIS/CHA dis at tier 2+"],
       restrictions |-> [special |-> "At high tier, failed WIS save can force impulse action."],
       narrationCues |-> <<"dark veins", "whispers", "cravings", "distorted reflections">>],
      [id |-> "exhaustion", name |-> "Exhaustion", type |-> "debuff",
       mechanics |-> <<"Exhaustion level effects apply per tier.">>,
       modifiers |-> <<>>,
       restrictions |-> NoRestrictions,
       narrationCues |-> <<"heavy limbs", "shaking", "collapse">>] }

BaseOf(id) == CHOOSE d \in baseDefinitions : d.id = id

\* lines 2349-2356
exhaustionLevels(level) ==
    CASE level = 1 -> [abilityChecks |-> "dis"]
      [] level = 2 -> [movementSpeed |-> "0.5x"]
      [] level = 3 -> [attackRolls |-> "dis", savingThrows |-> "dis"]
      [] level = 4 -> [hpMax |-> "0.5x"]
      [] level = 5 -> [movementSpeed |-> "0", actionAvailability |-> "cannot move"]
      [] level = 6 -> [actionAvailability |-> "dead"]
      [] OTHER -> BaseOf("exhaustion").modifiers

\* buildStatusDefinition: <<>> for null, <<definition>> otherwise
buildStatusDefinition(normalizedId, severity) ==
    IF normalizedId = "exhaustion"
    THEN Only({ << [BaseOf("exhaustion") EXCEPT
                      !.name = "Exhaustion (Level " \o ToString(level) \o ")",
                      !.mechanics = <<"Level 1: ability checks disadvantage. Level 2: speed halved. Level 3: attack rolls and saves disadvantage. Level 4: HP max halved. Level 5: speed 0. Level 6: death.">>,
                      !.modifiers = exhaustionLevels(level),
                      !.restrictions = IF level >= 6 THEN Frozen
                                       ELSE IF level >= 5 THEN [canMove |-> FALSE]
                                       ELSE NoRestrictions] >>
                : level \in {IF IsNumber(severity) THEN Num(severity) ELSE 1} })
    ELSE IF normalizedId = "corruption"
    THEN Only({ << [BaseOf("corruption") EXCEPT
                      !.name = "Corruption (Tier " \o ToString(tier) \o ")",
                      !.modifiers =
                         IF tier = 1
                         THEN [savingThrows |-> "WIS -1 (or dis once per scene)"]
                         ELSE IF tier = 2
                         THEN [abilityChecks |-> "WIS/CHA dis",
                               savingThrows |-> "WIS dis on trigger"]
                         ELSE [abilityChecks |-> "WIS/CHA dis", savingThrows |-> "WIS dis",
                               damage |-> "impulse risk"],
                      !.restrictions =
                         IF tier >= 3
                         THEN [special |-> "On failed WIS save, DM may force one harmful impulse."]
                         ELSE @] >>
                : tier \in {IF IsNumber(severity) THEN Num(severity) ELSE 1} })
    ELSE IF \E d \in baseDefinitions : d.id = normalizedId
    THEN << BaseOf(normalizedId) >>
    ELSE <<>>

\* entry.id, entry.name, entry.mechanics are truthy
Present(x) == x # <<>>

\* lines 2436-2461: the id, name, severity and type an entry is normalised to,
\* <<>> when the entry is dropped.  rawId is the trimmed lower-case id (not
\* empty), its first token is the word it starts with; severityFloor is
\* Math.floor(entry.severity).
normalizeIdentity(rawId, rawName, severityFloor, entryType) ==
    IF rawId[1] = "exhaustion"
          \/ hasAny(rawName, Words({"exhaustion"}))
    THEN Only({ IF level = <<>> \/ Num(level) = 0 \/ Num(level) < 1 \/ Num(level) > 6
                THEN <<>>
                ELSE << [id |-> "exhaustion",
                         name |-> "Exhaustion (Level " \o ToString(Num(level)) \o ")",
                         severity |-> level, type |-> "debuff"] >>
                : level \in { IF FirstDigits(rawId) # <<>> THEN FirstDigits(rawId)
                              ELSE IF FirstDigits(rawName) # <<>> THEN FirstDigits(rawName)
                              ELSE severityFloor } })
    ELSE IF rawId[1] = "corruption"
          \/ hasAny(rawName, Words({"corruption"}))
    THEN Only({ IF tier = <<>> \/ Num(tier) = 0 \/ Num(tier) < 1 \/ Num(tier) > 3
                THEN <<>>
                ELSE << [id |-> "corruption",
                         name |-> "Corruption (Tier " \o ToString(Num(tier)) \o ")",
                         severity |-> tier, type |-> "debuff"] >>
                : tier \in { IF FirstDigits(rawId) # <<>> THEN FirstDigits(rawId)
                             ELSE IF FirstDigits(rawName) # <<>> THEN FirstDigits(rawName)
                             ELSE severityFloor } })
    ELSE IF \E c \in canonicalStatusMap : c.id = JoinTokens(rawId)
    THEN Only({ << [id |-> c.id, name |-> c.name, severity |-> severityFloor,
                    type |-> c.type] >>
                : c \in {c \in canonicalStatusMap : c.id = JoinTokens(rawId)} })
    ELSE <<>>

\* normalizeEntry: <<>> for null, <<status>> otherwise
normalizeEntry(entry) ==
    IF entry = <<>> THEN <<>>
    ELSE IF ~Present(entry.id) \/ ~Present(entry.name) \/ ~Present(entry.mechanics)
    THEN <<>>
    ELSE
    Only({
        IF rawId = <<>> \/ entry.name = <<>> \/ entry.mechanics = <<>>
              \/ entry.trigger = <<>> \/ entry.cure = <<>>
        THEN <<>>
        ELSE IF \/ socialOrScenePattern(entry.name)
                \/ socialOrScenePattern(entry.mechanics)
                \/ socialOrScenePattern(entry.trigger)
                \/ socialOrScenePattern(entry.cure)
        THEN <<>>
        ELSE IF ~mechanicsPattern(entry.mechanics) THEN <<>>
        ELSE IF ~triggerPattern(entry.trigger) THEN <<>>
        ELSE IF entry.durationType \notin validDuration THEN <<>>
        ELSE
        Only({
            IF identity = <<>> THEN <<>>
            ELSE
            Only({
                IF definition = <<>> THEN <<>>
                ELSE << [id |-> identity[1].id,
                         name |-> OrStr(definition[1].name, identity[1].name),
                         type |-> OrStr(definition[1].type, identity[1].type),
                         mechanics |-> definition[1].mechanics,
                         trigger |-> entry.trigger,
                         modifiers |-> definition[1].modifiers,
                         restrictions |-> definition[1].restrictions,
                         narrationCues |-> definition[1].narrationCues,
                         duration |-> [type |-> entry.durationType,
                                       value |-> entry.durationValue],
                         cure |-> entry.cure,
                         severity |-> identity[1].severity] >>
                : definition \in {buildStatusDefinition(identity[1].id,
                                                        identity[1].severity)} })
            : identity \in
                {normalizeIdentity(rawId, entry.name,
                                   IF IsNumber(entry.severityHalves)
                                   THEN Some(FloorHalf(Num(entry.severityHalves)))
                                   ELSE None,
                                   entry.type)} })
        : rawId \in { [i \in 1..Len(TrimBlanks(entry.id)) |->
                          LowerCase(TrimBlanks(entry.id)[i])] } })

\* normalizeRemove: a string or an object with an id gives {id}
normalizeRemove(entry) ==
    IF entry = <<>> THEN <<>>
    ELSE IF entry.id # "" THEN << [id |-> entry.id] >>
    ELSE <<>>

\* .map(f).filter(Boolean)
RECURSIVE MapFilter(_, _)
MapFilter(results, k) ==
    IF k > Len(results) THEN <<>>
    ELSE results[k] \o MapFilter(results, k + 1)

\* normalizeStatusUpdate without the cut of the apply list to one entry
normalizeStatusUpdate_noCap(payload, activeIds) ==
    LET present == SelectSeq(payload.apply,
                             LAMBDA e : e # <<>> /\ Present(e.id) /\ Present(e.name))
        notActive == SelectSeq(present, LAMBDA e : JoinTokens(e.id) \notin activeIds)
    IN  [apply |-> MapFilter([k \in 1..Len(notActive) |-> normalizeEntry(notActive[k])], 1),
         update |-> MapFilter([k \in 1..Len(payload.update) |->
                                  normalizeEntry(payload.update[k])], 1),
         remove |-> MapFilter([k \in 1..Len(payload.remove) |->
                                  normalizeRemove(payload.remove[k])], 1)]

\* normalizeStatusUpdate(payload, statusState); activeIds are the id strings
\* of statusState.active_statuses
normalizeStatusUpdate(payload, activeIds) ==
    LET present == SelectSeq(payload.apply,
                             LAMBDA e : e # <<>> /\ Present(e.id) /\ Present(e.name))
        notActive == SelectSeq(present, LAMBDA e : JoinTokens(e.id) \notin activeIds)
        prunedApply == IF Len(notActive) > 1 THEN SubSeq(notActive, 1, 1) ELSE notActive
    IN  [apply |-> MapFilter([k \in 1..Len(prunedApply) |-> normalizeEntry(prunedApply[k])], 1),
         update |-> MapFilter([k \in 1..Len(payload.update) |->
                                  normalizeEntry(payload.update[k])], 1),
         remove |-> MapFilter([k \in 1..Len(payload.remove) |->
                                  normalizeRemove(payload.remove[k])], 1)]

----------------------------------------------------------------------------
(* The explored status proposals *)

PoisonedEntry ==
    [id |-> <<"poisoned">>, name |-> <<"poisoned">>,
     mechanics |-> <<"disadvantage", "on", "attack", "rolls">>,
     trigger |-> <<"failed", "save">>, cure |-> <<"antidote">>,
     durationType |-> "rounds", durationValue |-> Some(3),
     severityHalves |-> None, type |-> "condition"]

StatusEntries ==
    { PoisonedEntry,
      [PoisonedEntry EXCEPT !.id = <<"Poisoned">>],
      [PoisonedEntry EXCEPT !.id = <<" ", "poisoned">>],
      [PoisonedEntry EXCEPT !.id = <<"blessed">>, !.name = <<"blessed">>,
                            !.mechanics = <<"free", "drinks", "for", "all">>,
                            !.type = "buff"],
      [PoisonedEntry EXCEPT !.id = <<"blessed">>, !.name = <<"blessed">>,
                            !.mechanics = <<"bonus", "with", "the", "crowd">>],
      [PoisonedEntry EXCEPT !.id = <<"bleeding">>, !.name = <<"bleeding">>,
                            !.mechanics = <<"damage", "each", "turn">>,
                            !.type = "buff"],
      [PoisonedEntry EXCEPT !.id = <<"exhaustion", "_", "3">>, !.name = <<"exhaustion">>,
                            !.mechanics = <<"speed", "halved">>],
      [PoisonedEntry EXCEPT !.id = <<"exhaustion">>, !.name = <<"exhaustion">>,
                            !.severityHalves = Some(15)],
      [PoisonedEntry EXCEPT !.id = <<"exhaustion">>, !.name = <<"exhaustion">>],
      [PoisonedEntry EXCEPT !.id = <<"doomed">>, !.name = <<"exhaustion", "2">>],
      [PoisonedEntry EXCEPT !.id = <<"doomed">>, !.name = <<"doomed">>],
      [PoisonedEntry EXCEPT !.id = <<"corruption">>, !.name = <<"corruption">>,
                            !.severityHalves = Some(5)],
      [PoisonedEntry EXCEPT !.id = <<"corruption", "_", "4">>, !.name = <<"corruption">>],
      [PoisonedEntry EXCEPT !.mechanics = <<>>],
      [PoisonedEntry EXCEPT !.trigger = <<"bad", "luck">>],
      [PoisonedEntry EXCEPT !.durationType = "forever"],
      <<>> }

MaxApply == 2
MaxUpdate == 1

SeqsUpTo(S, n) == UNION { [1..k -> S] : k \in 0..n }

StatusPayloads ==
    [apply : SeqsUpTo(StatusEntries, MaxApply),
     update : SeqsUpTo(StatusEntries, MaxUpdate),
     remove : { <<>>, << [id |-> "poisoned"], <<>> >> }]

\* the ids of statusState.active_statuses
ActiveIdSets == { {}, {"poisoned"}, {"exhaustion", "bleeding"} }

\* generateStatusUpdate has parsed the model's reply
StatusInit ==
    /\ battles = {}
    /\ callsLeft = 1
    /\ DmQuiet
    /\ \E payload \in StatusPayloads, activeIds \in ActiveIdSets :
          lastCall = [op |-> "status-parsed", payload |-> payload, activeIds |-> activeIds]

\* lines 618-632: the parsed reply is normalised and returned
StatusNormalized ==
    /\ lastCall.op = "status-parsed"
    /\ lastCall' = [op |-> "status-update", payload |-> lastCall.payload,
                    activeIds |-> lastCall.activeIds,
                    result |-> normalizeStatusUpdate(lastCall.payload, lastCall.activeIds)]
    /\ callsLeft' = callsLeft - 1
    /\ UNCHANGED <<battles, pendingChecks, gameStateByCampaign, inflight, now, history>>

StatusNext == StatusNormalized

SpecStatus == StatusInit /\ [][StatusNext]_vars

----------------------------------------------------------------------------
(* The explored inputs of classifyIntent *)

\* phrases that match one entry of the pattern library each, in the library's
\* order, then one word of each keyword bucket that is in no library pattern,
\* then a word that is in none
ClassifyPhrases ==
    { <<"i", "surrender">>, <<"i", "attack", "the", "guard">>, <<"last", "warning">>,
      <<"hide">>, <<"pretend">>, <<"persuade">>, <<"vault">>,
      <<"brawl">>, <<"sneak">>, <<"taunt">>, <<"climb">>, <<"wave">>,
      <<"choke">>, <<"gut">>, <<"cripple">> }

\* the texts: an optional attempt lead-in, then one or two of the phrases
ClassifyLeads == { <<>>, <<"i", "try", "to">> }
MaxPhrases == 2
ClassifyTexts ==
    { lead \o ps[1] \o (IF Len(ps) > 1 THEN <<"and">> \o ps[2] ELSE <<>>) :
        lead \in ClassifyLeads,
        ps \in UNION { [1..k -> ClassifyPhrases] : k \in 1..MaxPhrases } }

ClassifyInit ==
    /\ battles = {}
    /\ callsLeft = 1
    /\ DmQuiet
    /\ \E text \in ClassifyTexts : lastCall = [op |-> "classify-call", text |-> text]

\* classifyIntent(text) with no options, as the handler's fallback calls it
\* for a request without a selected target, participants and context
Classified ==
    /\ lastCall.op = "classify-call"
    /\ lastCall' = [op |-> "classified", text |-> lastCall.text,
                    intent |-> classifyIntent(lastCall.text, "", <<>>, <<>>)]
    /\ callsLeft' = callsLeft - 1
    /\ UNCHANGED <<battles, pendingChecks, gameStateByCampaign, inflight, now, history>>

ClassifyNext == Classified

SpecClassify == ClassifyInit /\ [][ClassifyNext]_vars

----------------------------------------------------------------------------
(* The explored inputs of segmentMessage and annotateSegments *)

\* the words of the explored messages: a speech lead-in (i say), a request
\* marker, a past-reference marker, an action marker and a word of no family
SegmentWords == {"i", "say", "please", "sorry", "attack", "wave"}
MaxSegmentWords == 3

\* the messages: up to three of the words, alone or followed by a quotation
SegmentTexts ==
    { ws \o q : ws \in UNION { [1..k -> SegmentWords] : k \in 0..MaxSegmentWords },
                q \in { <<>>, <<Quote, "hello", "there", Quote>>,
                        <<Quote, "please", Quote>> } }
    \ { <<>> }

\* messages with narration before and after a quotation, on one line or two,
\* the empty message and a message of white space
QuotedTexts ==
    { pre \o q \o post :
        pre \in { <<>>, <<"i", "say">>, <<"i", "wave">> },
        q \in { <<Quote, "hello", "there", Quote>>, <<Quote, "please", Quote>>,
                <<Quote, "sorry", Quote>> },
        post \in { <<>>, <<"and", "step", "back", ".">>, <<Newline, "i", "attack">> } }
    \cup { <<>>, <<Newline>>, <<"i", "wave", Newline, Newline, "i", "attack">> }

SegmentInit ==
    /\ battles = {}
    /\ callsLeft = 1
    /\ DmQuiet
    /\ \E text \in SegmentTexts \cup QuotedTexts :
          lastCall = [op |-> "segment-call", text |-> text]

\* annotateSegments(segmentMessage(playerAction)), line 1452 of diceRoutes.ts
Annotated ==
    /\ lastCall.op = "segment-call"
    /\ lastCall' = [op |-> "annotated", text |-> lastCall.text,
                    segments |-> annotateSegments(segmentMessage(lastCall.text))]
    /\ callsLeft' = callsLeft - 1
    /\ UNCHANGED <<battles, pendingChecks, gameStateByCampaign, inflight, now, history>>

SegmentNext == Annotated

SpecSegments == SegmentInit /\ [][SegmentNext]_vars

----------------------------------------------------------------------------
(* Properties of the combat engine *)

StoredBattles == {e.val : e \in battles}

\* the last request was a POST /action that resolved an action
ActionResolved == lastCall.op = "action" /\ lastCall.error = ""
PostBattle == MapGet(battles, lastCall.campaign)

\* the call went through the enemy turn and the status expiry (combat did not
\* end right after the player's action): only then is the round incremented
FullCycle == ActionResolved /\ PostBattle.round = lastCall.pre.round + 1

HpInRange(entity) == 0 <= entity.hp /\ entity.hp <= entity.hp_max

\* C1: every entity of every stored battle has 0 <= hp <= hp_max.
C1_HpAlwaysInRange ==
    \A b \in StoredBattles : \A i \in 1..Len(b.entities) : HpInRange(b.entities[i])

EventIdx(ev, types) == {i \in 1..Len(ev) : ev[i].type \in types}
SetMin(S) == CHOOSE x \in S : \A y \in S : x <= y
SetMax(S) == CHOOSE x \in S : \A y \in S : x >= y

PlayerActionTypes ==
    {"ATTACK_RESOLVED", "DAMAGE_APPLIED", "ENEMY_DEFEATED", "STATUS_APPLIED",
     "MOVE_RESOLVED", "ITEM_USED", "SPELL_CAST", "ATTEMPT_ACTION"}
EnemyTurnTypes == {"TURN_START", "ATTACK_RESOLVED", "DAMAGE_APPLIED", "ENEMY_DEFEATED"}

\* the ids of the TURN_START events of ev after the first event, in order
LaterTurnStarts(ev) ==
    LET starts == SelectSeq(Tail(ev), LAMBDA e : e.type = "TURN_START")
    IN  [i \in 1..Len(starts) |-> starts[i].actor]

\* C4: in a call in which combat does not end right after the player's
\* action, the returned events are, in this order: TURN_START of the actor and
\* the events of the player's action; then, for every living enemy in roster
\* order, its TURN_START and its attack on the player, closed by the player's
\* TURN_START; then the STATUS_REMOVED events; then, last, the COMBAT_ENDED of
\* the final check, present exactly when the battle is left ended.
C4_StepOrder ==
    FullCycle =>
        LET ev == lastCall.events
            n == Len(ev)
            post == PostBattle
            player == post.entities[FindPlayer(post.entities)]
            living == SelectSeq(post.entities, LAMBDA e : e.type = "enemy" /\ e.hp > 0)
            starts == EventIdx(ev, {"TURN_START"}) \ {1}
            firstEnemy == SetMin(starts)
            lastStart == SetMax(starts)
        IN  /\ ev[1] = [type |-> "TURN_START", actor |-> lastCall.intent.actor]
            /\ LaterTurnStarts(ev) = [i \in 1..Len(living) |-> living[i].id] \o <<player.id>>
            /\ \A i \in 2..(firstEnemy - 1) :
                  /\ ev[i].type \in PlayerActionTypes
                  /\ ev[i].type = "ATTACK_RESOLVED" => ev[i].actor = lastCall.intent.actor
            /\ \A i \in firstEnemy..lastStart :
                  /\ ev[i].type \in EnemyTurnTypes
                  /\ (ev[i].type = "TURN_START" /\ i < lastStart) =>
                        /\ ev[i + 1].type = "ATTACK_RESOLVED"
                        /\ ev[i + 1].actor = ev[i].actor
                        /\ ev[i + 1].target = player.id
            /\ \A i \in (lastStart + 1)..n :
                  \/ ev[i].type = "STATUS_REMOVED"
                  \/ ev[i].type = "COMBAT_ENDED" /\ i = n
            /\ (ev[n].type = "COMBAT_ENDED") <=> (post.phase = "ended")

\* a call in which the player defended, an enemy then hit the defending
\* player, and the status expired afterwards
C4_Witness ==
    /\ FullCycle
    /\ lastCall.intent.action = "defend"
    /\ \E i, j, k \in 1..Len(lastCall.events) :
          /\ i < j /\ j < k
          /\ lastCall.events[i].type = "STATUS_APPLIED"
          /\ lastCall.events[j].type = "DAMAGE_APPLIED"
          /\ lastCall.events[k].type = "STATUS_REMOVED"

CombatEndedEvents(ev) == EventIdx(ev, {"COMBAT_ENDED"})
PlayerDown(b) ==
    LET pi == FindPlayer(b.entities) IN pi = 0 \/ b.entities[pi].hp <= 0
EnemiesAlive(b) ==
    \E i \in 1..Len(b.entities) : b.entities[i].type = "enemy" /\ b.entities[i].hp > 0

\* C5: the last checkCombatEnd of a call sees the state the call leaves. If
\* the player's hp is <= 0 the battle is left ended with one COMBAT_ENDED
\* (defeat) as last event, also when no enemy is alive; otherwise, if no enemy
\* has hp > 0, it is left ended with one COMBAT_ENDED (victory) as last event;
\* otherwise it is not ended and no COMBAT_ENDED is among the events.
C5_CombatEnd ==
    ActionResolved =>
        LET ev == lastCall.events
            post == PostBattle
        IN  IF PlayerDown(post)
            THEN /\ post.phase = "ended"
                 /\ ev[Len(ev)] = [type |-> "COMBAT_ENDED", result |-> "defeat"]
                 /\ Cardinality(CombatEndedEvents(ev)) = 1
            ELSE IF ~EnemiesAlive(post)
            THEN /\ post.phase = "ended"
                 /\ ev[Len(ev)] = [type |-> "COMBAT_ENDED", result |-> "victory"]
                 /\ Cardinality(CombatEndedEvents(ev)) = 1
            ELSE /\ post.phase # "ended"
                 /\ CombatEndedEvents(ev) = {}

\* the player, at 0 hp, defeats the last enemy: both conditions hold at the check
C5_Witness ==
    /\ ActionResolved
    /\ PlayerDown(PostBattle) /\ ~EnemiesAlive(PostBattle)
    /\ EventIdx(lastCall.events, {"ENEMY_DEFEATED"}) # {}

\* C6: a battle whose phase is ended stays ended across resolveAction calls.
C6_EndedIsTerminal ==
    [][ \A c \in Campaigns :
          ( /\ MapHas(battles, c) /\ MapGet(battles, c).phase = "ended"
            /\ lastCall'.op = "action" /\ lastCall'.campaign = c )
          => MapGet(battles', c).phase = "ended" ]_vars

\* the statuses an entity holds when the expiry step of the last call runs:
\* those it had before the call, and the defending status a defend adds
StatusesBeforeExpiry(i) ==
    LET pre == lastCall.pre
        e == pre.entities[i]
        intent == lastCall.intent
    IN  IF /\ intent.action = "defend"
           /\ FindById(pre.entities, intent.actor) = i
           /\ ~HasStatus(e, "defending")
        THEN Append(e.statuses, [key |-> "defending", duration |-> 1])
        ELSE e.statuses

\* C8: in a full cycle every status of every entity has its duration reduced
\* by 1, the statuses whose reduced duration is <= 0 are removed, each with
\* one STATUS_REMOVED event, and the others are kept in order; no stored
\* entity ever holds a status of duration <= 0.
C8_StatusExpiry ==
    /\ \A b \in StoredBattles : \A i \in 1..Len(b.entities) :
          \A k \in 1..Len(b.entities[i].statuses) : b.entities[i].statuses[k].duration > 0
    /\ FullCycle =>
          \A i \in 1..Len(PostBattle.entities) :
            LET before == StatusesBeforeExpiry(i)
                reduced == [k \in 1..Len(before) |-> [before[k] EXCEPT !.duration = @ - 1]]
                expired == SelectSeq(reduced, LAMBDA s : s.duration <= 0)
                entity == PostBattle.entities[i]
                removed == SelectSeq(lastCall.events,
                                     LAMBDA e : e.type = "STATUS_REMOVED" /\ e.target = entity.id)
            IN  /\ entity.statuses = SelectSeq(reduced, LAMBDA s : s.duration > 0)
                /\ [k \in 1..Len(removed) |-> removed[k].status_key]
                     = [k \in 1..Len(expired) |-> expired[k].key]

\* a full cycle in which a status expired and was removed
C8_Witness ==
    /\ FullCycle
    /\ \E i \in 1..Len(PostBattle.entities) :
          /\ StatusesBeforeExpiry(i) # <<>>
          /\ PostBattle.entities[i].statuses = <<>>
    /\ EventIdx(lastCall.events, {"STATUS_REMOVED"}) # {}

----------------------------------------------------------------------------
(* Properties of POST /dm-response *)

\* the LastResolvedAction a store holds for a campaign, <<>> for none
LastResolvedActionIn(store, campaignKey) ==
    IF MapHas(store, campaignKey) THEN MapGet(store, campaignKey).lastResolvedAction
    ELSE <<>>

ChecksOf(store, campaignKey) == {e \in store : e.key = campaignKey}

\* C2: for every campaign, in every state of every interleaving of
\* /dm-response requests, at most one PendingCheck is stored; a step stores a
\* PendingCheck only when it handles a decision that requires a roll; and the
\* step that processes a roll result carrying a stored check's id leaves no
\* check with that id.
C2_OnePendingCheck ==
    [][ /\ \A e \in pendingChecks' : Cardinality(ChecksOf(pendingChecks', e.key)) <= 1
        /\ (\E e \in pendingChecks' : e \notin pendingChecks)
              => /\ lastCall'.op = "dm-decide"
                 /\ lastCall'.handled.decision.shouldRoll = <<TRUE>>
        /\ lastCall'.op = "dm-roll"
              => \A e \in pendingChecks' : e.val.id # lastCall'.check.id ]_vars

\* C2 witness: a decision that requires a roll is handled while the check of
\* an earlier attack decision is still stored (its battle exists and no roll
\* result has come), and the campaign is left with the new check alone.
C2_Witness ==
    /\ lastCall.op = "dm-decide"
    /\ lastCall.hadBattle
    /\ lastCall.handled.pendingCheck # <<>>
    /\ ChecksOf(pendingChecks, lastCall.campaign)
          = {[key |-> lastCall.campaign, val |-> lastCall.handled.pendingCheck[1]]}

\* the steps of a request that carries a roll result and a check id matching no
\* stored check
StrayStep == lastCall.op \in {"dm-act", "dm-decide", "dm-narrated"} /\ lastCall.stray

\* C3: a request that carries a rollResult and a pendingCheckId while the
\* campaign has no stored PendingCheck with that id is a no-op: none of its
\* steps changes the campaign's PendingCheck, CombatState or LastResolvedAction.
C3_StrayRollIsNoOp ==
    [][ StrayStep'
          => /\ pendingChecks' = pendingChecks
             /\ battles' = battles
             /\ LastResolvedActionIn(gameStateByCampaign', lastCall'.campaign)
                   = LastResolvedActionIn(gameStateByCampaign, lastCall'.campaign) ]_vars

\* the ATTACK_RESOLVED events of the stored battles' logs and of the last roll
AttackResolvedEvents ==
    LET logged == UNION { {b.log[k] : k \in 1..Len(b.log)} : b \in StoredBattles }
        returned == IF lastCall.op = "dm-roll" /\ lastCall.check.type = "attack"
                    THEN {lastCall.events[k] : k \in 1..Len(lastCall.events)}
                    ELSE {}
    IN  {ev \in logged \cup returned : ev.type = "ATTACK_RESOLVED"}

\* C7: for every attack resolved by resolveAttack, with the d20, bonus and
\* total supplied by the client or generated: the attack is a critical exactly
\* when d20 = 20 and then hits, a fumble exactly when d20 = 1 and then misses,
\* and for every other d20 it hits exactly when total >= 10; the AC is 10.
C7_CritFumbleHit ==
    \A ev \in AttackResolvedEvents :
        /\ ev.ac = 10
        /\ ev.critical = (ev.roll = 20)
        /\ ev.fumble = (ev.roll = 1)
        /\ ev.roll = 20 => ev.hit
        /\ ev.roll = 1 => ~ev.hit
        /\ ev.roll \notin {1, 20} => (ev.hit = (ev.total >= 10))

\* C7 witness: a supplied d20 of 20 with a total below the AC has hit
C7_Witness ==
    /\ lastCall.op = "dm-roll"
    /\ lastCall.check.type = "attack"
    /\ lastCall.attackRoll.d20 = Some(20)
    /\ \E ev \in AttackResolvedEvents :
          ev.actor = "player" /\ ev.roll = 20 /\ ev.total < 10 /\ ev.hit /\ ev.critical

\* the last step resolved an action whose decision had intentType PAST_REF or
\* SPEECH: on the no-roll path, or by the roll of a check made from it
SpeechOrPastResolved ==
    \/ /\ lastCall.op = "dm-decide"
       /\ StrOf(lastCall.handled.decision.intentType) \in {"PAST_REF", "SPEECH"}
    \/ /\ lastCall.op = "dm-roll-narrated"
       /\ lastCall.check.intentType \in {"PAST_REF", "SPEECH"}

\* C9: a campaign's LastResolvedAction is never overwritten by an action whose
\* decision had intentType PAST_REF or SPEECH, neither on the no-roll path nor
\* when a PendingCheck created from such a decision is resolved by a roll
\* result.
C9_SpeechKeepsLastResolved ==
    [][ SpeechOrPastResolved'
          => LastResolvedActionIn(gameStateByCampaign', lastCall'.campaign)
                = LastResolvedActionIn(gameStateByCampaign, lastCall'.campaign) ]_vars

\* IntentDecision, aiService.ts: the fields that may not be null or absent
RequiredDecisionFields ==
    {"primarySegmentId", "intentType", "domain", "shouldRoll", "actionLabel", "narration"}

\* the intent router's reply is an object with the required fields
HasRequiredFields(generated) ==
    /\ generated # <<>>
    /\ \A f \in RequiredDecisionFields : generated[1][f] # <<>>

\* C10: when the intent router's call fails, its output is not JSON, or
\* required fields are missing, the request is handled exactly as it is with
\* the deterministic classifier's fallback decision (the same decision, the
\* same PendingCheck, battle start and LastResolvedAction).
C10_MalformedUsesFallback ==
    (lastCall.op = "dm-decide" /\ ~HasRequiredFields(lastCall.generated))
       => lastCall.handled = handleDecision(<<>>, lastCall.body, lastCall.hadBattle,
                                            lastCall.checkId, lastCall.time)

----------------------------------------------------------------------------
(* Properties of the combat engine, continued *)

\* C11: resolveAction for a campaign id that has no stored battle fails with
\* the error 'Battle not found' and the step changes no stored battle of any
\* campaign.
C11_UnknownCampaign ==
    [][ (lastCall'.op = "action" /\ ~MapHas(battles, lastCall'.campaign))
          => /\ lastCall'.error = "Battle not found"
             /\ battles' = battles ]_vars

\* C11 witness: the call has failed for a campaign without a battle while
\* another campaign's battle is stored
C11_Witness ==
    /\ lastCall.op = "action"
    /\ lastCall.error = "Battle not found"
    /\ ~MapHas(battles, lastCall.campaign)
    /\ battles # {}

----------------------------------------------------------------------------
(* Properties of normalizeStatusUpdate *)

StatusReturned == lastCall.op = "status-update"

\* C12: for every proposed delta and every set of active statuses,
\* normalizeStatusUpdate returns at most one entry in apply.
C12_ApplyAtMostOne ==
    StatusReturned => Len(lastCall.result.apply) <= 1

\* C12 witness: two proposals that are not active and each normalise to a
\* status were proposed, and only the first was returned
C12_Witness ==
    /\ StatusReturned
    /\ Len(lastCall.payload.apply) = 2
    /\ \A k \in 1..2 :
          /\ normalizeEntry(lastCall.payload.apply[k]) # <<>>
          /\ JoinTokens(lastCall.payload.apply[k].id) \notin lastCall.activeIds
    /\ lastCall.payload.apply[1] # lastCall.payload.apply[2]
    /\ lastCall.result.apply = normalizeEntry(lastCall.payload.apply[1])

\* C13: for every proposed delta and every set of active statuses, the apply
\* list returned by normalizeStatusUpdate contains no status whose id equals
\* the id of a status that is already active on the character.
C13_ApplyNotActive ==
    StatusReturned
       => \A k \in 1..Len(lastCall.result.apply) :
             lastCall.result.apply[k].id \notin lastCall.activeIds

CatalogIds == {c.id : c \in canonicalStatusMap}

\* the proposal's id, trimmed and in lower case, is an id of the catalog or
\* starts with the name of one of the two tiered statuses
HasCanonicalId(entry) ==
    /\ entry # <<>>
    /\ TrimBlanks(entry.id) # <<>>
    /\ \/ JoinTokens([i \in 1..Len(TrimBlanks(entry.id)) |->
                         LowerCase(TrimBlanks(entry.id)[i])]) \in CatalogIds
       \/ LowerCase(TrimBlanks(entry.id)[1]) \in {"exhaustion", "corruption"}

\* the entry carries the canonical definition of its id and severity
IsCanonical(status) ==
    /\ status.id \in CatalogIds
    /\ buildStatusDefinition(status.id, status.severity) # <<>>
    /\ \E d \in {buildStatusDefinition(status.id, status.severity)[1]} :
          /\ status.mechanics = d.mechanics
          /\ status.modifiers = d.modifiers
          /\ status.restrictions = d.restrictions
          /\ status.narrationCues = d.narrationCues
    /\ status.id = "exhaustion" => status.severity # <<>> /\ status.severity[1] \in 1..6
    /\ status.id = "corruption" => status.severity # <<>> /\ status.severity[1] \in 1..3

\* C14: every entry of the apply and update lists returned by
\* normalizeStatusUpdate has an id of the canonical catalog of 17 ids and the
\* mechanics, modifiers, restrictions and narration cues of the canonical
\* definition for that id and severity (an exhaustion level is in 1..6, a
\* corruption tier in 1..3); and a proposal whose id has no canonical match is
\* dropped.
C14_CanonicalOnly ==
    StatusReturned
       => /\ Cardinality(CatalogIds) = 17
          /\ \A k \in 1..Len(lastCall.result.apply) : IsCanonical(lastCall.result.apply[k])
          /\ \A k \in 1..Len(lastCall.result.update) : IsCanonical(lastCall.result.update[k])
          /\ Len(lastCall.result.update)
                <= Cardinality({k \in 1..Len(lastCall.payload.update) :
                                   HasCanonicalId(lastCall.payload.update[k])})

----------------------------------------------------------------------------
(* Properties of the intent classifier and the segment hints *)

LibraryMatches(text) ==
    {i \in 1..Len(PATTERN_LIBRARY) : PatternTest(PATTERN_LIBRARY[i].name, text)}

\* the first keyword bucket the text falls in, "" for none
KeywordBucket(text) ==
    IF \/ hasAny(text, violenceWords)
       \/ /\ hasAny(text, Words({"fire"}))
          /\ hasAny(text, Words({"bow", "gun", "weapon", "arrow", "bolt", "pistol", "rifle"}))
       \/ /\ hasAny(text, Words({"throw"}))
          /\ hasAny(text, Words({"at", "into", "toward"}))
          /\ PERSON_TARGET_PATTERN(text)
    THEN "violence"
    ELSE IF hasAny(text, stealthWords) THEN "stealth"
    ELSE IF hasAny(text, socialWords) THEN "social"
    ELSE IF hasAny(text, physicalWords) THEN "physical"
    ELSE ""

BucketCheck(bucket) ==
    CASE bucket = "violence" -> "combat"
      [] bucket = "stealth" -> "contest"
      [] bucket = "social" -> "contest"
      [] bucket = "physical" -> "skill"

\* C15: classifyIntent evaluates in a fixed order.  The library's entries are
\* in the order surrender/self-harm, explicit attack, coercion/threat, covert
\* stealth, social deception, social persuasion, physical stunt, and the first
\* entry that matches alone gives tags and suggested_check; if none matches,
\* the first of the keyword buckets violence, stealth, social, physical that
\* matches gives them; if none matches and the text has an attempt lead-in the
\* result is a physical attempt with a skill check; otherwise it is a talk
\* action with suggested_check none.  'I attack the guard' gives action
\* attack, tags [violence], suggested_check combat.
C15_ClassifyOrder ==
    lastCall.op = "classified"
       => \E text \in {normalizeInput(lastCall.text)}, intent \in {lastCall.intent} :
          \E m \in {LibraryMatches(text)}, bucket \in {KeywordBucket(text)} :
             /\ [i \in 1..Len(PATTERN_LIBRARY) |-> PATTERN_LIBRARY[i].name]
                   = << "surrender_or_self_harm", "explicit_attack", "coercion_threat",
                        "stealth_covert", "social_deception", "social_persuasion",
                        "physical_stunt" >>
             /\ m # {} => /\ intent.tags = << PATTERN_LIBRARY[SetMin(m)].tag >>
                          /\ intent.suggested_check
                                = PATTERN_LIBRARY[SetMin(m)].suggested_check
             /\ (m = {} /\ bucket # "")
                   => /\ intent.tags = <<bucket>>
                      /\ intent.suggested_check = BucketCheck(bucket)
             /\ (m = {} /\ bucket = "" /\ TRY_PATTERN(text))
                   => /\ intent.action = "attempt"
                      /\ intent.tags = <<"physical">>
                      /\ intent.suggested_check = "skill"
             /\ (m = {} /\ bucket = "" /\ ~TRY_PATTERN(text))
                   => /\ intent.action = "talk"
                      /\ intent.tags = <<>>
                      /\ intent.suggested_check = "none"
             /\ lastCall.text = AttackText
                   => /\ intent.action = "attack"
                      /\ intent.tags = <<"violence">>
                      /\ intent.suggested_check = "combat"

\* C15 witness: a text that matches the surrender entry and the explicit
\* attack entry, and falls in the violence bucket, was classified by the
\* surrender entry
C15_Witness ==
    /\ lastCall.op = "classified"
    /\ {1, 2} \subseteq LibraryMatches(normalizeInput(lastCall.text))
    /\ KeywordBucket(normalizeInput(lastCall.text)) = "violence"
    /\ lastCall.intent.tags = <<"social">>
    /\ lastCall.intent.suggested_check = "none"

\* the hint of the highest-priority family a segment text matches
PriorityHint(segmentText) ==
    IF detectPastRef(segmentText) THEN "PAST_REF"
    ELSE IF detectSpeech(segmentText) THEN "SPEECH"
    ELSE IF detectRequest(segmentText) THEN "REQUEST"
    ELSE IF detectActionNow(segmentText) THEN "ACTION_NOW"
    ELSE "UNKNOWN"

\* C16: annotateSegments gives each segment the hint of the highest-priority
\* pattern family it matches, in the order PAST_REF > SPEECH > REQUEST >
\* ACTION_NOW > UNKNOWN; a segment that matches the SPEECH and the REQUEST
\* family and not PAST_REF is tagged SPEECH, one that matches no family is
\* tagged UNKNOWN.
C16_HintPriority ==
    lastCall.op = "annotated"
       => \A k \in 1..Len(lastCall.segments) :
             lastCall.segments[k].hint = PriorityHint(lastCall.segments[k].text)

\* the positions of the quote characters of a text
QuoteIdx(text) == {i \in 1..Len(text) : text[i] = Quote}

\* the segment texts of the last call, one after the other
SegmentsJoined == Flatten([k \in 1..Len(lastCall.segments) |-> lastCall.segments[k].text])

\* C21: segmentMessage numbers its segments seg-1, seg-2, ... without gaps in
\* the order of the text; it returns a segment for every text that is not
\* white space only and none for the empty text; a quoted span inside a line
\* is a segment of its own between the narration before and after it, and
\* annotateSegments tags a quoted segment SPEECH unless it has a
\* past-reference marker.
C21_SegmentsAndQuotes ==
    lastCall.op = "annotated" =>
        LET text == lastCall.text
            segs == lastCall.segments
        IN  /\ \A k \in 1..Len(segs) : segs[k].id = "seg-" \o ToString(k)
            /\ SegmentsJoined = SelectSeq(text, LAMBDA t : t # Newline)
            /\ (\E i \in 1..Len(text) : text[i] # Newline) => Len(segs) >= 1
            /\ text = <<>> => segs = <<>>
            /\ \A i, j \in QuoteIdx(text) :
                  (QuoteIdx(text) = {i, j} /\ i + 1 < j
                     /\ \A n \in i..j : text[n] # Newline)
                  => \E k \in 1..Len(segs) :
                        /\ segs[k].text = SubSeq(text, i, j)
                        /\ (i > 1 /\ text[i - 1] # Newline)
                              => /\ k > 1
                                 /\ segs[k - 1].text[Len(segs[k - 1].text)] = text[i - 1]
                        /\ (j < Len(text) /\ text[j + 1] # Newline)
                              => /\ k < Len(segs)
                                 /\ segs[k + 1].text[1] = text[j + 1]
            /\ \A k \in 1..Len(segs) :
                  ( /\ Len(segs[k].text) >= 3
                    /\ segs[k].text[1] = Quote
                    /\ segs[k].text[Len(segs[k].text)] = Quote
                    /\ ~detectPastRef(segs[k].text) )
                  => segs[k].hint = "SPEECH"

----------------------------------------------------------------------------
(* Properties of the combat engine: log, start and damage *)

\* C17: after startBattle and after every resolveAction the battle log holds
\* at most 20 events, and they are the most recently emitted events in
\* emission order: the log before the call followed by the call's events,
\* with the oldest dropped first.
C17_LogIsLastTwenty ==
    /\ \A b \in StoredBattles : Len(b.log) <= 20
    /\ lastCall.op = "start" => PostBattle.log = lastCall.events /\ Len(PostBattle.log) = 1
    /\ ActionResolved
          => \E emitted \in {lastCall.pre.log \o lastCall.events} :
                /\ Len(PostBattle.log) = Min2(20, Len(emitted))
                /\ \A k \in 1..Len(PostBattle.log) :
                      PostBattle.log[k]
                         = emitted[Len(emitted) - Len(PostBattle.log) + k]

\* C17 witness: a call's events did not fit, and the oldest events of the log
\* were dropped
C17_Witness ==
    /\ ActionResolved
    /\ Len(lastCall.pre.log) + Len(lastCall.events) > 20
    /\ Len(PostBattle.log) = 20
    /\ PostBattle.log[20] = lastCall.events[Len(lastCall.events)]
    /\ PostBattle.log[1] # lastCall.pre.log[1]

\* C18: startBattle stores, under the campaign, a state whose initiative order
\* is the player's id followed by the enemies' ids in the order they were
\* given, whose entities are the player followed by the enemies in that same
\* order, in phase player_turn and round 1, with a log of exactly one
\* TURN_START event for the player; the campaign has that one battle only,
\* whatever was stored for it before.
C18_StartBattleState ==
    lastCall.op = "start"
        => /\ MapHas(battles, lastCall.campaign)
           /\ Cardinality({e \in battles : e.key = lastCall.campaign}) = 1
           /\ PostBattle.initiative_order
                 = <<lastCall.player.id>>
                   \o [i \in 1..Len(lastCall.enemies) |-> lastCall.enemies[i].id]
           /\ PostBattle.entities = <<lastCall.player>> \o lastCall.enemies
           /\ \A i \in 1..Len(PostBattle.entities) :
                 PostBattle.entities[i].id = PostBattle.initiative_order[i]
           /\ PostBattle.phase = "player_turn"
           /\ PostBattle.round = 1
           /\ PostBattle.log = << [type |-> "TURN_START", actor |-> lastCall.player.id] >>

\* C18 witness: a battle with two enemies has been started over a battle the
\* campaign already had
C18_Witness ==
    /\ lastCall.op = "start"
    /\ lastCall.replaced
    /\ Len(lastCall.enemies) = 2
    /\ lastCall.enemies[1].id # lastCall.enemies[2].id
    /\ PostBattle.initiative_order[2] = lastCall.enemies[1].id

\* the entity of the given id in a battle
EntityOf(b, id) == b.entities[FindById(b.entities, id)]

\* the last call was the player's attack on a living enemy
PlayerAttacksLivingEnemy ==
    /\ ActionResolved
    /\ lastCall.intent.action = "attack"
    /\ lastCall.intent.actor = "player"
    /\ FindById(lastCall.pre.entities, lastCall.intent.target) # 0
    /\ EntityOf(lastCall.pre, lastCall.intent.target).type = "enemy"
    /\ EntityOf(lastCall.pre, lastCall.intent.target).hp > 0

\* the positions of the hits of the last call: an ATTACK_RESOLVED with hit
HitIdx(ev) == {i \in EventIdx(ev, {"ATTACK_RESOLVED"}) : ev[i].hit}

\* the player holds the defending status while the attacks of the last call
\* are resolved: it had it before the call or its defend action was the call
PlayerDefends ==
    \/ HasStatus(EntityOf(lastCall.pre, "player"), "defending")
    \/ lastCall.intent.action = "defend" /\ lastCall.intent.actor = "player"

\* the type of the attacker of an ATTACK_RESOLVED event
AttackerType(e) == EntityOf(lastCall.pre, e.actor).type

\* the events of a critical hit of the player with the supplied d20 of 20:
\* ATTACK_RESOLVED (critical, hit), then DAMAGE_APPLIED of twice the d8 + 2
CritEvents ==
    LET ev == lastCall.events
    IN  /\ Len(ev) >= 3
        /\ ev[2].type = "ATTACK_RESOLVED" /\ ev[2].critical /\ ev[2].hit
        /\ ev[3].type = "DAMAGE_APPLIED"
        /\ ev[3].amount = 2 * (lastCall.rolls.pdmg + 2)
        /\ ev[3].amount \in 6..20 /\ ev[3].amount % 2 = 0

\* C19 as stated: a player's attack on a living enemy with a supplied d20 of
\* 20 returns ATTACK_RESOLVED (critical, hit) followed by DAMAGE_APPLIED, the
\* amount being twice the d8 + 2, an even value in 6..20, and the enemy's hp
\* is lower by that amount; every hit that is not critical has the base
\* damage as its amount, in 3..10 for a player attacker and in 2..7 for an
\* enemy attacker.
C19_CritDoublesDamage ==
    ActionResolved =>
        LET ev == lastCall.events
        IN  /\ (PlayerAttacksLivingEnemy /\ lastCall.attackRoll.d20 = Some(20))
                  => /\ CritEvents
                     /\ EntityOf(PostBattle, lastCall.intent.target).hp
                          = EntityOf(lastCall.pre, lastCall.intent.target).hp - ev[3].amount
            /\ \A i \in HitIdx(ev) :
                  ~ev[i].critical
                     => /\ ev[i + 1].type = "DAMAGE_APPLIED"
                        /\ IF AttackerType(ev[i]) = "player"
                           THEN ev[i + 1].amount \in 3..10
                           ELSE ev[i + 1].amount \in 2..7

\* C19 amended: as above, but the enemy's hp is lower by that amount only down
\* to 0 (it is the old hp less the amount, kept within 0..hp_max), and the
\* amount of a hit that is not critical is the base damage unless the target
\* is a player holding the defending status.
C19_CritDoublesClamped ==
    ActionResolved =>
        LET ev == lastCall.events
        IN  /\ (PlayerAttacksLivingEnemy /\ lastCall.attackRoll.d20 = Some(20))
                  => /\ CritEvents
                     /\ \E old \in {EntityOf(lastCall.pre, lastCall.intent.target)} :
                           EntityOf(PostBattle, lastCall.intent.target).hp
                             = Max2(0, Min2(old.hp_max, old.hp - ev[3].amount))
                     /\ ev[3].remaining_hp = EntityOf(PostBattle, lastCall.intent.target).hp
            /\ \A i \in HitIdx(ev) :
                  (~ev[i].critical /\ ~(ev[i].target = "player" /\ PlayerDefends))
                     => /\ ev[i + 1].type = "DAMAGE_APPLIED"
                        /\ IF AttackerType(ev[i]) = "player"
                           THEN /\ ev[i + 1].amount \in 3..10
                                /\ ev[i + 1].amount = lastCall.rolls.pdmg + 2
                           ELSE ev[i + 1].amount \in 2..7

\* C19 witness: the supplied d20 of 20, with a total below the AC, and a d8 of
\* 8 have taken 20 from an enemy of 10 hp, which is left at 0; the enemy
\* being down, no other hit follows
C19_Witness ==
    /\ PlayerAttacksLivingEnemy
    /\ lastCall.attackRoll.d20 = Some(20)
    /\ lastCall.attackRoll.total = Some(5)
    /\ lastCall.rolls.pdmg = 8
    /\ lastCall.events[3].amount = 20
    /\ EntityOf(lastCall.pre, lastCall.intent.target).hp = 10
    /\ EntityOf(PostBattle, lastCall.intent.target).hp = 0

\* the damage d of the hit at position i of the last call's events, after the
\* doubling of a critical: the attack of the intent is the second event and
\* throws the d8 of a player attacker or the d6 of an enemy attacker; the
\* k-th attack of the enemy turn throws the k-th enemy's d6
DamageBeforeDefence(i) ==
    LET ev == lastCall.events
        base == IF i = 2
                THEN IF AttackerType(ev[i]) = "player"
                     THEN lastCall.rolls.pdmg + 2
                     ELSE lastCall.rolls.pdmg6 + 1
                ELSE lastCall.rolls.edmg[
                         Cardinality({j \in EventIdx(ev, {"ATTACK_RESOLVED"}) :
                                         2 < j /\ j <= i})] + 1
    IN  IF ev[i].critical THEN 2 * base ELSE base

\* C20: a hit on a player holding the defending status applies
\* max(1, floor(d / 2)), d being the damage after the doubling of a critical;
\* a hit on an enemy, or on a player not defending, applies d.  The amount is
\* what DAMAGE_APPLIED reports and what the target's hp loses, down to 0.
C20_DefendingHalves ==
    ActionResolved =>
        LET ev == lastCall.events
        IN  /\ \A i \in HitIdx(ev) :
                  /\ ev[i + 1].type = "DAMAGE_APPLIED"
                  /\ ev[i + 1].target = ev[i].target
                  /\ ev[i + 1].amount
                       = IF ev[i].target = "player" /\ PlayerDefends
                         THEN Max2(1, DamageBeforeDefence(i) \div 2)
                         ELSE DamageBeforeDefence(i)
            /\ \A t \in {"player", "enemy-0"} :
                  Cardinality({i \in HitIdx(ev) : ev[i].target = t}) = 1
                     => \E i \in HitIdx(ev) : \E old \in {EntityOf(lastCall.pre, t)} :
                           /\ ev[i].target = t
                           /\ EntityOf(PostBattle, t).hp
                                = Max2(0, Min2(old.hp_max, old.hp - ev[i + 1].amount))

\* C20 witness: the player has defended and an enemy's hit that is not
\* critical, with a d6 of 4, has applied 2 of its 5; the player lost 2 hp
C20_Witness ==
    /\ ActionResolved
    /\ lastCall.intent.action = "defend"
    /\ PlayerDefends
    /\ lastCall.rolls.edmg[1] = 4
    /\ \E i \in HitIdx(lastCall.events) :
          /\ ~lastCall.events[i].critical
          /\ lastCall.events[i].target = "player"
          /\ DamageBeforeDefence(i) = 5
          /\ lastCall.events[i + 1].amount = 2
    /\ EntityOf(PostBattle, "player").hp = EntityOf(lastCall.pre, "player").hp - 2

----------------------------------------------------------------------------
(* Properties of POST /dm-response, continued *)

\* the last step handled a request whose intent decision was unavailable and
\* whose text the deterministic classifier takes for combat, the primary
\* segment being hinted ACTION_NOW
FallbackCombat ==
    /\ lastCall.op = "dm-decide"
    /\ lastCall.generated = <<>>
    /\ \E intent \in {classifyIntent(lastCall.body.playerAction, lastCall.body.selectedTarget,
                                     lastCall.body.sceneParticipants,
                                     lastCall.body.gameContext)} :
          intent.action = "attack" /\ intent.suggested_check = "combat"
    /\ \E segments \in {annotateSegments(segmentMessage(lastCall.body.playerAction))} :
          /\ primarySegmentOf(segments) # 0
          /\ segments[primarySegmentOf(segments)].hint = "ACTION_NOW"

\* C22: when the intent decision is unavailable and the classifier gives
\* action attack with suggested_check combat on a segment hinted ACTION_NOW,
\* the request is routed to combat: an attack-type PendingCheck is stored for
\* the campaign and a battle exists for it (so that the matching roll result
\* is resolved by the combat engine).
C22_FallbackRoutesToCombat ==
    FallbackCombat
       => /\ MapHas(pendingChecks, lastCall.campaign)
          /\ MapGet(pendingChecks, lastCall.campaign).type = "attack"
          /\ MapHas(battles, lastCall.campaign)

----------------------------------------------------------------------------
(* Properties of the combat engine: defeat, defending and the supplied roll *)

\* C23: ENEMY_DEFEATED is emitted exactly when an attack brings an enemy's hp
\* to 0: it follows every DAMAGE_APPLIED that leaves an enemy that was alive
\* at 0, each ENEMY_DEFEATED follows such a DAMAGE_APPLIED, and none names
\* the player.
C23_EnemyDefeatedOnlyForEnemies ==
    ActionResolved =>
        LET ev == lastCall.events
            kills == {i \in EventIdx(ev, {"DAMAGE_APPLIED"}) :
                         /\ EntityOf(lastCall.pre, ev[i].target).type = "enemy"
                         /\ EntityOf(lastCall.pre, ev[i].target).hp > 0
                         /\ ev[i].remaining_hp = 0}
        IN  /\ \A i \in kills :
                  /\ i < Len(ev)
                  /\ ev[i + 1] = [type |-> "ENEMY_DEFEATED", target |-> ev[i].target]
            /\ \A i \in EventIdx(ev, {"ENEMY_DEFEATED"}) :
                  /\ ev[i].target # "player"
                  /\ EntityOf(lastCall.pre, ev[i].target).type = "enemy"
                  /\ i - 1 \in kills

\* how many defending statuses an entity holds
DefendingCount(entity) ==
    Cardinality({k \in 1..Len(entity.statuses) : entity.statuses[k].key = "defending"})

\* C24: a defend adds a defending status of duration 1 to the actor only when
\* it holds none, and otherwise leaves the actor's statuses as they are, so
\* no entity ever holds two; in a full cycle the status halves the enemies'
\* hits on the defending player during the enemy turn and is removed, with a
\* STATUS_REMOVED event, at the status expiry that follows the enemy attacks.
C24_DefendOnce ==
    /\ \A b \in StoredBattles : \A i \in 1..Len(b.entities) :
          DefendingCount(b.entities[i]) <= 1
    /\ ( /\ ActionResolved
         /\ lastCall.intent.action = "defend"
         /\ FindById(lastCall.pre.entities, lastCall.intent.actor) # 0 )
       => LET ev == lastCall.events
              a == FindById(lastCall.pre.entities, lastCall.intent.actor)
              old == lastCall.pre.entities[a]
              held == IF HasStatus(old, "defending") THEN old.statuses
                      ELSE Append(old.statuses, [key |-> "defending", duration |-> 1])
          IN  IF ~FullCycle
              THEN PostBattle.entities[a].statuses = held
              ELSE /\ ~HasStatus(PostBattle.entities[a], "defending")
                   /\ \E r \in EventIdx(ev, {"STATUS_REMOVED"}) :
                         /\ ev[r] = [type |-> "STATUS_REMOVED", target |-> old.id,
                                     status_key |-> "defending"]
                         /\ \A i \in EventIdx(ev, {"ATTACK_RESOLVED", "DAMAGE_APPLIED"}) : i < r
                   /\ old.type = "player"
                         => \A i \in HitIdx(ev) :
                               ev[i].target = old.id
                                  => ev[i + 1].amount
                                       = Max2(1, DamageBeforeDefence(i) \div 2)

\* C24 witness: the player defended while holding the defending status of an
\* earlier defend, and holds that one status, its duration unchanged
C24_Witness ==
    /\ ActionResolved
    /\ lastCall.intent.action = "defend"
    /\ lastCall.intent.actor = "player"
    /\ HasStatus(EntityOf(lastCall.pre, "player"), "defending")
    /\ EntityOf(PostBattle, "player").statuses = << [key |-> "defending", duration |-> 1] >>

\* C25: when a roll result resolves an attack-type PendingCheck,
\* resolveAction runs once for the request (one player turn is logged) and
\* the supplied roll is used verbatim: the player's ATTACK_RESOLVED carries
\* the d20, the bonus and the total the client supplied, none being
\* generated, and no enemy attack of the call uses the supplied roll (an
\* enemy's total is its own d20 with bonus 0).
C25_SuppliedRollVerbatim ==
    (lastCall.op = "dm-roll" /\ lastCall.check.type = "attack")
       => LET ev == lastCall.events
              supplied == lastCall.rollResult
          IN  /\ {i \in EventIdx(ev, {"TURN_START"}) : ev[i].actor = "player" /\ i = 1} = {1}
              /\ Cardinality({i \in EventIdx(ev, {"ATTACK_RESOLVED"}) :
                                 ev[i].actor = "player"}) <= 1
              /\ \A i \in EventIdx(ev, {"ATTACK_RESOLVED"}) :
                    IF ev[i].actor = "player"
                    THEN /\ IsNumber(supplied.d20) => ev[i].roll = Num(supplied.d20)
                         /\ IsNumber(supplied.bonus) => ev[i].bonus = Num(supplied.bonus)
                         /\ IsNumber(supplied.total) => ev[i].total = Num(supplied.total)
                    ELSE ev[i].bonus = 0 /\ ev[i].total = ev[i].roll

----------------------------------------------------------------------------
(* Properties of the classifier, continued *)

\* C26: every text that classifyIntent classifies through an entry of the
\* pattern library or through the violence bucket and that holds one of the
\* lethal verbs kill, strangle, choke, gut, cripple has stakes high.
C26_LethalVerbsRaiseStakes ==
    lastCall.op = "classified"
       => \E text \in {normalizeInput(lastCall.text)} :
             ( /\ LibraryMatches(text) # {} \/ KeywordBucket(text) = "violence"
               /\ hasAny(text, Words({"kill", "strangle", "choke", "gut", "cripple"})) )
             => lastCall.intent.stakes = "high"

----------------------------------------------------------------------------
(* Properties of POST /dm-response: requests that interleave *)

\* the requests that have taken the roll branch and wait for its narration
InRollBranch(slot) == inflight[slot].pc \in {"combatNarration", "rollNarration"}

\* C27: a PendingCheck is resolved at most once.  No check id is taken by the
\* roll branch twice, whatever the order in which the requests that carry it
\* arrive and continue; while a request of the roll branch waits at an await,
\* its check is no longer stored; and the step that takes an attack check is
\* the step that calls resolveAction.
C27_ResolvedAtMostOnce ==
    /\ \A i, j \in 1..Len(history.resolved) :
          i # j => history.resolved[i] # history.resolved[j]
    /\ \A slot \in Slots :
          InRollBranch(slot)
             => /\ \A e \in pendingChecks : e.val.id # inflight[slot].pending.id
                /\ \E i \in 1..Len(history.resolved) :
                      history.resolved[i] = inflight[slot].pending.id
    /\ (lastCall.op = "dm-roll" /\ lastCall.check.type = "attack")
          => /\ lastCall.events # <<>>
             /\ history.resolved[Len(history.resolved)] = lastCall.check.id

\* C27 witness: two requests carry the id of the same attack check; the first
\* has taken the roll branch and waits for the combat narration, the second
\* has arrived meanwhile and is handled as an ordinary action.
C27_Witness ==
    \E s1, s2 \in Slots :
       /\ inflight[s1].pc = "combatNarration"
       /\ inflight[s2].pc = "intentDecision"
       /\ inflight[s2].stray
       /\ inflight[s2].body.pendingCheckId = inflight[s1].pending.id
       /\ history.resolved = <<inflight[s1].pending.id>>

\* the ids of the checks that a newer check has replaced in the store: issued,
\* never rolled and no longer stored
SupersededIds ==
    {id \in IssuedCheckIds :
        /\ \A i \in 1..Len(history.resolved) : history.resolved[i] # id
        /\ \A e \in pendingChecks : e.val.id # id}

\* a step of a request that carries a roll result and the id of a superseded
\* check while a newer check of its campaign is stored: its arrival, or its
\* continuation after the intent router's reply
StaleRollStep ==
    /\ lastCall'.stray
    /\ MapHas(pendingChecks, lastCall'.campaign)
    /\ \/ /\ lastCall'.op = "dm-act"
          /\ \E slot \in Slots :
                /\ inflight[slot].pc = "idle"
                /\ inflight'[slot].pc = "intentDecision"
                /\ inflight'[slot].body.pendingCheckId \in SupersededIds
       \/ /\ lastCall'.op = "dm-decide"
          /\ lastCall'.body.pendingCheckId \in SupersededIds

\* C28: when a decision that requires a roll is handled while a check of the
\* campaign is stored, the new check takes the place of the stored one; and a
\* later request that carries a roll result with the older check's id resolves
\* no check and leaves the newer check in the store.
C28_NewerCheckSurvives ==
    [][ /\ (lastCall'.op = "dm-decide" /\ lastCall'.handled.pendingCheck # <<>>)
              => ChecksOf(pendingChecks', lastCall'.campaign)
                    = {[key |-> lastCall'.campaign,
                        val |-> lastCall'.handled.pendingCheck[1]]}
        /\ StaleRollStep
              => /\ history'.resolved = history.resolved
                 /\ pendingChecks' = pendingChecks ]_vars

----------------------------------------------------------------------------
(* Properties of POST /dm-response: the turn counter *)

\* the turn a store holds for a campaign, as line 1292 reads it
TurnIn(store, campaignKey) ==
    IF MapHas(store, campaignKey) /\ IsNumber(MapGet(store, campaignKey).turnIndex)
    THEN Num(MapGet(store, campaignKey).turnIndex)
    ELSE 0

\* C29: the turn counter of a campaign grows by exactly 1 in the step in
\* which a request that passes validation arrives and is changed by no other
\* step, the steps that write LastResolvedAction included: it never decreases
\* and is never reset.
C29_TurnIndexCounts ==
    [][ \A campaignKey \in {e.key : e \in gameStateByCampaign \cup gameStateByCampaign'} :
           TurnIn(gameStateByCampaign', campaignKey)
              = IF lastCall'.op \in {"dm-act", "dm-roll"} /\ lastCall'.campaign = campaignKey
                THEN TurnIn(gameStateByCampaign, campaignKey) + 1
                ELSE TurnIn(gameStateByCampaign, campaignKey) ]_vars

----------------------------------------------------------------------------
(* Properties of POST /dm-response: the campaign's battle *)

\* the battle a campaign had stays the battle it has: the same entities in the
\* same order, no enemy with more hp than before, the round not before
SameBattleOn(before, after) ==
    /\ after.id = before.id
    /\ after.round >= before.round
    /\ Len(after.entities) = Len(before.entities)
    /\ \A i \in 1..Len(before.entities) :
          /\ after.entities[i].id = before.entities[i].id
          /\ before.entities[i].type = "enemy"
                => after.entities[i].hp <= before.entities[i].hp

\* C30: the /dm-response flow starts a battle for a campaign only when none
\* is stored for it.  Once a campaign has a battle, ended or not, no step
\* replaces it by a freshly started one: the only step that changes it is the
\* roll branch of an attack check, which resolves the attack against the
\* stored battle and stores the outcome.
C30_StoredBattleIsReused ==
    [][ \A e \in battles :
           /\ MapHas(battles', e.key)
           /\ (lastCall'.op = "dm-roll" /\ lastCall'.campaign = e.key
               /\ lastCall'.check.type = "attack")
                 => /\ lastCall'.pre = e.val
                    /\ SameBattleOn(e.val, MapGet(battles', e.key))
           /\ ~(lastCall'.op = "dm-roll" /\ lastCall'.campaign = e.key
                /\ lastCall'.check.type = "attack")
                 => MapGet(battles', e.key) = e.val ]_vars

\* C30 witness: the roll result of an attack check has been resolved against
\* the campaign's stored battle, which an earlier roll had ended, and the
\* battle is still the stored one with its enemy at 0 hp.
C30_Witness ==
    /\ lastCall.op = "dm-roll"
    /\ lastCall.check.type = "attack"
    /\ lastCall.pre.phase = "ended"
    /\ Len(lastCall.pre.log) > 1
    /\ MapHas(battles, lastCall.campaign)
    /\ SameBattleOn(lastCall.pre, MapGet(battles, lastCall.campaign))
    /\ \E i \in 1..Len(lastCall.pre.entities) :
          /\ lastCall.pre.entities[i].type = "enemy"
          /\ MapGet(battles, lastCall.campaign).entities[i].hp = 0

============================================================================
